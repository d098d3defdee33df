------------------------ MODULE SyncCheckoutTables ------------------------
(***************************************************************************)
(* Lemmas for SyncCheckoutProofs, for every set of scenarios: what the     *)
(* operators of Worktree do for every tree and every path, what single     *)
(* steps do to the tables of SyncCheckout, the inductive invariant IInv,   *)
(* and the steps that keep it from one stage of a command to the next:     *)
(* the journal's execution, beginnings, plans and ends.  The last part is  *)
(* about CInv, the journal that the code's validation takes: what adding,  *)
(* turning and dropping rows does to chains and links, and the stages that *)
(* have nothing to do with them.                                           *)
(***************************************************************************)
EXTENDS SyncCheckout, SequenceTheorems, FiniteSums

Path == Seq(Leaf)

(***************************************************************************)
(* Paths.                                                                  *)
(***************************************************************************)
LEMMA RootIsPath == <<>> \in Path /\ Parent(<<>>) = <<>>
  BY DEF Path, Parent

LEMMA ParentIs ==
    ASSUME NEW p \in Path, p # <<>>
    PROVE  /\ Len(p) \in Nat \ {0}
           /\ Parent(p) \in Path /\ Len(Parent(p)) = Len(p) - 1
           /\ \A i \in 1 .. Len(p) - 1 : Parent(p)[i] = p[i]
           /\ Last(p) = p[Len(p)] /\ Last(p) \in Leaf
           /\ p = Append(Parent(p), Last(p))
  <1>1. Len(p) \in Nat \ {0}
    BY DEF Path
  <1>2. Parent(p) = SubSeq(p, 1, Len(p) - 1)
    BY DEF Parent, Front
  <1>3. Parent(p) \in Path /\ Len(Parent(p)) = Len(p) - 1 /\ \A i \in 1 .. Len(p) - 1 : Parent(p)[i] = p[i]
    <2>1. PICK n \in Nat : n = Len(p) - 1
      BY <1>1
    <2>2. \A i \in 1 .. n : p[i] \in Leaf
      BY <1>1, <2>1 DEF Path
    <2>3. SubSeq(p, 1, n) \in Seq(Leaf) /\ Len(SubSeq(p, 1, n)) = n /\ \A i \in 1 .. n : SubSeq(p, 1, n)[i] = p[i]
      BY <2>2, SubSeqProperties
    <2> QED BY <1>2, <2>1, <2>3 DEF Path
  <1>4. Last(p) = p[Len(p)] /\ Last(p) \in Leaf
    BY <1>1 DEF Last, Path
  <1>5. p = Append(Parent(p), Last(p))
    BY <1>1, <1>3, <1>4, AppendProperties, SeqEqual DEF Path
  <1> QED BY <1>1, <1>3, <1>4, <1>5

LEMMA AppendIs ==
    ASSUME NEW p \in Path, NEW l \in Leaf
    PROVE  /\ Append(p, l) \in Path /\ Append(p, l) # <<>> /\ Len(Append(p, l)) = Len(p) + 1
           /\ Parent(Append(p, l)) = p /\ Last(Append(p, l)) = l
  <1> DEFINE q == Append(p, l)
  <1>1. q \in Path /\ Len(q) = Len(p) + 1 /\ Len(p) \in Nat /\ q[Len(q)] = l /\ \A i \in 1 .. Len(p) : q[i] = p[i]
    BY AppendProperties DEF Path
  <1>2. q # <<>>
    BY <1>1
  <1> HIDE DEF q
  <1>3. Parent(q) = p
    <2>1. Parent(q) \in Path /\ Len(Parent(q)) = Len(q) - 1 /\ \A i \in 1 .. Len(q) - 1 : Parent(q)[i] = q[i]
      BY <1>1, <1>2, ParentIs
    <2>2. Len(Parent(q)) = Len(p) /\ \A i \in 1 .. Len(p) : Parent(q)[i] = p[i]
      BY <1>1, <2>1
    <2> QED BY <2>1, <2>2, SeqEqual DEF Path
  <1>4. Last(q) = l
    BY <1>1, <1>2, ParentIs
  <1> QED BY <1>1, <1>2, <1>3, <1>4 DEF q

LEMMA BesideIs ==
    ASSUME NEW p \in Path, p # <<>>, NEW l \in Leaf
    PROVE  /\ Beside(p, l) \in Path /\ Beside(p, l) # <<>> /\ Len(Beside(p, l)) = Len(p)
           /\ Parent(Beside(p, l)) = Parent(p) /\ Last(Beside(p, l)) = l
  BY ParentIs, AppendIs DEF Beside

LEMMA Associative ==
    ASSUME NEW p \in Path, NEW q \in Path, NEW r \in Path
    PROVE  (p \o q) \o r = p \o (q \o r)
  BY ConcatAssociative DEF Path

LEMMA SamePath ==
    ASSUME NEW p \in Path, NEW q \in Path, p # <<>>, q # <<>>, Parent(p) = Parent(q), Last(p) = Last(q)
    PROVE  p = q
  BY ParentIs

(***************************************************************************)
(* Prefixes, and a path seen from its ancestor.                            *)
(***************************************************************************)
LEMMA PrefixIs ==
    ASSUME NEW p \in Path, NEW q \in Path
    PROVE  IsPrefix(p, q) <=> Len(p) <= Len(q) /\ \A i \in 1 .. Len(p) : p[i] = q[i]
  <1>1. Len(p) \in Nat /\ Len(q) \in Nat
    BY DEF Path
  <1>2. SubSeq(p, 1, Len(p)) = p
    BY <1>1, SubSeqProperties, SeqEqual DEF Path
  <1>3. ASSUME Len(p) <= Len(q)
        PROVE  SubSeq(q, 1, Len(p)) = p <=> \A i \in 1 .. Len(p) : p[i] = q[i]
    <2>1. SubSeq(q, 1, Len(p)) \in Path /\ Len(SubSeq(q, 1, Len(p))) = Len(p)
      BY <1>1, <1>3, SubSeqProperties DEF Path
    <2>2. \A i \in 1 .. Len(p) : SubSeq(q, 1, Len(p))[i] = q[i]
      BY <1>1, <1>3, SubSeqProperties DEF Path
    <2> QED BY <1>1, <2>1, <2>2, SeqEqual DEF Path
  <1> QED BY <1>1, <1>2, <1>3 DEF IsPrefix

LEMMA RestIs ==
    ASSUME NEW p \in Path, NEW q \in Path, IsPrefix(p, q)
    PROVE  /\ Rest(p, q) \in Path /\ Len(Rest(p, q)) = Len(q) - Len(p)
           /\ \A i \in 1 .. Len(q) - Len(p) : Rest(p, q)[i] = q[Len(p) + i]
           /\ p \o Rest(p, q) = q
  <1>1. Len(p) \in Nat /\ Len(q) \in Nat /\ Len(p) <= Len(q) /\ \A i \in 1 .. Len(p) : p[i] = q[i]
    BY PrefixIs DEF Path
  <1>2. Rest(p, q) \in Path /\ Len(Rest(p, q)) = Len(q) - Len(p)
    BY <1>1, SubSeqProperties DEF Path, Rest
  <1>3. \A i \in 1 .. Len(q) - Len(p) : Rest(p, q)[i] = q[Len(p) + i]
    BY <1>1, SubSeqProperties DEF Path, Rest
  <1>4. p \o Rest(p, q) \in Path /\ Len(p \o Rest(p, q)) = Len(q)
    BY <1>1, <1>2, ConcatProperties DEF Path
  <1>5. \A i \in 1 .. Len(q) : (p \o Rest(p, q))[i] = q[i]
    <2> TAKE i \in 1 .. Len(q)
    <2>1. CASE i <= Len(p)
      BY <1>1, <1>2, <2>1, ConcatProperties DEF Path
    <2>2. CASE ~ (i <= Len(p))
      <3>1. (p \o Rest(p, q))[i] = Rest(p, q)[i - Len(p)]
        BY <1>1, <1>2, <2>2, ConcatProperties DEF Path
      <3> QED BY <1>1, <1>3, <2>2, <3>1
    <2> QED BY <2>1, <2>2
  <1>6. p \o Rest(p, q) = q
    BY <1>1, <1>4, <1>5, SeqEqual DEF Path
  <1> QED BY <1>2, <1>3, <1>6

LEMMA ConcatIs ==
    ASSUME NEW p \in Path, NEW s \in Path
    PROVE  /\ p \o s \in Path /\ Len(p \o s) = Len(p) + Len(s)
           /\ \A i \in 1 .. Len(p) : (p \o s)[i] = p[i]
           /\ \A i \in 1 .. Len(s) : (p \o s)[Len(p) + i] = s[i]
           /\ IsPrefix(p, p \o s) /\ Rest(p, p \o s) = s
           /\ s = <<>> => p \o s = p
           /\ s # <<>> => p \o s # p /\ p \o s # <<>> /\ Parent(p \o s) = p \o Parent(s) /\ Last(p \o s) = Last(s)
  <1>1. Len(p) \in Nat /\ Len(s) \in Nat
    BY DEF Path
  <1>2. p \o s \in Path /\ Len(p \o s) = Len(p) + Len(s)
    BY <1>1, ConcatProperties DEF Path
  <1>3. \A i \in 1 .. Len(p) : (p \o s)[i] = p[i]
    BY <1>1, ConcatProperties DEF Path
  <1>4. \A i \in 1 .. Len(s) : (p \o s)[Len(p) + i] = s[i]
    BY <1>1, <1>2, ConcatProperties DEF Path
  <1> DEFINE q == p \o s
  <1>q. /\ q \in Path /\ Len(q) = Len(p) + Len(s)
        /\ \A i \in 1 .. Len(p) : q[i] = p[i]
        /\ \A i \in 1 .. Len(s) : q[Len(p) + i] = s[i]
    BY <1>2, <1>3, <1>4
  <1> HIDE DEF q
  <1>5. IsPrefix(p, q)
    BY <1>1, <1>q, PrefixIs
  <1>6. Rest(p, q) = s
    <2>1. /\ Rest(p, q) \in Path /\ Len(Rest(p, q)) = Len(s)
          /\ \A i \in 1 .. Len(s) : Rest(p, q)[i] = q[Len(p) + i]
      BY <1>1, <1>5, <1>q, RestIs
    <2> QED BY <1>1, <1>q, <2>1, SeqEqual DEF Path
  <1>7. s = <<>> => p \o s = p
    BY <1>1, <1>2, <1>3, SeqEqual DEF Path
  <1>8. ASSUME s # <<>>
        PROVE  q # p /\ q # <<>> /\ Parent(q) = p \o Parent(s) /\ Last(q) = Last(s)
    <2>1. Len(s) \in Nat \ {0} /\ Parent(s) \in Path /\ Len(Parent(s)) = Len(s) - 1
          /\ \A i \in 1 .. Len(s) - 1 : Parent(s)[i] = s[i]
      BY <1>8, ParentIs
    <2>2. q # p /\ q # <<>>
      BY <1>1, <1>q, <2>1
    <2>a. /\ Parent(q) \in Path /\ Len(Parent(q)) = Len(q) - 1
          /\ \A i \in 1 .. Len(q) - 1 : Parent(q)[i] = q[i]
      BY <1>q, <2>2, ParentIs
    <2>3. /\ Parent(q) \in Path /\ Len(Parent(q)) = Len(p) + Len(s) - 1
          /\ \A i \in 1 .. Len(p) + Len(s) - 1 : Parent(q)[i] = q[i]
      BY <1>1, <1>q, <2>a
    <2>4. /\ p \o Parent(s) \in Path /\ Len(p \o Parent(s)) = Len(p) + Len(s) - 1
      BY <1>1, <2>1, ConcatProperties DEF Path
    <2>5. \A i \in 1 .. Len(p) + Len(s) - 1 : (p \o Parent(s))[i] = q[i]
      <3> TAKE i \in 1 .. Len(p) + Len(s) - 1
      <3>1. CASE i <= Len(p)
        BY <1>1, <1>q, <2>1, <3>1, ConcatProperties DEF Path
      <3>2. CASE ~ (i <= Len(p))
        <4>1. (p \o Parent(s))[i] = Parent(s)[i - Len(p)]
          BY <1>1, <2>1, <2>4, <3>2, ConcatProperties DEF Path
        <4>2. q[i] = s[i - Len(p)]
          <5>1. i - Len(p) \in 1 .. Len(s) /\ i = Len(p) + (i - Len(p))
            BY <1>1, <2>1, <3>2
          <5> QED BY <1>1, <1>q, <5>1
        <4> QED BY <1>1, <2>1, <3>2, <4>1, <4>2
      <3> QED BY <3>1, <3>2
    <2>6. Parent(q) = p \o Parent(s)
      BY <1>1, <1>q, <2>1, <2>3, <2>4, <2>5, SeqEqual DEF Path
    <2>7. Last(q) = Last(s)
      BY <1>1, <1>8, <1>q, <2>1, <2>2, ParentIs
    <2> QED BY <2>2, <2>6, <2>7
  <1> QED BY <1>2, <1>3, <1>4, <1>5, <1>6, <1>7, <1>8 DEF q

LEMMA PrefixOrder ==
    ASSUME NEW p \in Path, NEW q \in Path, NEW r \in Path
    PROVE  /\ IsPrefix(p, p) /\ IsPrefix(<<>>, p)
           /\ IsPrefix(p, q) /\ IsPrefix(q, r) => IsPrefix(p, r)
           /\ IsPrefix(p, q) /\ IsPrefix(q, p) => p = q
           /\ IsPrefix(p, r) /\ IsPrefix(q, r) => IsPrefix(p, q) \/ IsPrefix(q, p)
  <1>1. Len(p) \in Nat /\ Len(q) \in Nat /\ Len(r) \in Nat /\ <<>> \in Path
    BY DEF Path
  <1>2. IsPrefix(p, p) /\ IsPrefix(<<>>, p)
    BY <1>1, PrefixIs
  <1>3. IsPrefix(p, q) /\ IsPrefix(q, r) => IsPrefix(p, r)
    BY <1>1, PrefixIs
  <1>4. IsPrefix(p, q) /\ IsPrefix(q, p) => p = q
    BY <1>1, PrefixIs, SeqEqual DEF Path
  <1>5. IsPrefix(p, r) /\ IsPrefix(q, r) => IsPrefix(p, q) \/ IsPrefix(q, p)
    BY <1>1, PrefixIs
  <1> QED BY <1>2, <1>3, <1>4, <1>5

LEMMA PrefixOfParent ==
    ASSUME NEW p \in Path, NEW q \in Path, q # <<>>
    PROVE  /\ IsPrefix(Parent(q), q) /\ Parent(q) # q
           /\ IsPrefix(p, q) /\ p # q => IsPrefix(p, Parent(q))
           /\ IsPrefix(p, Parent(q)) => IsPrefix(p, q) /\ p # q
  <1>1. Len(p) \in Nat /\ Len(q) \in Nat \ {0} /\ Parent(q) \in Path /\ Len(Parent(q)) = Len(q) - 1
        /\ \A i \in 1 .. Len(q) - 1 : Parent(q)[i] = q[i]
    BY ParentIs DEF Path
  <1>2. IsPrefix(Parent(q), q) /\ Parent(q) # q
    BY <1>1, PrefixIs
  <1>3. ASSUME IsPrefix(p, q), p # q PROVE IsPrefix(p, Parent(q))
    <2>1. Len(p) <= Len(q) /\ \A i \in 1 .. Len(p) : p[i] = q[i]
      BY <1>3, PrefixIs
    <2>2. Len(p) # Len(q)
      BY <1>1, <1>3, <2>1, SeqEqual DEF Path
    <2> QED BY <1>1, <2>1, <2>2, PrefixIs
  <1>4. ASSUME IsPrefix(p, Parent(q)) PROVE IsPrefix(p, q) /\ p # q
    BY <1>1, <1>4, PrefixIs
  <1> QED BY <1>2, <1>3, <1>4

(***************************************************************************)
(* Trees.  In a well-formed one the root and whatever has something below  *)
(* it are directories, and an identity names one object.                   *)
(***************************************************************************)
Kinds == {"File", "Directory"}
IsObject(o) == DOMAIN o = {"id", "kind", "data"} /\ o.kind \in Kinds
Objects(t) == \A p \in DOMAIN t : IsObject(t[p])
WellFormed(t, last) ==
    /\ DOMAIN t \subseteq Path /\ Objects(t) /\ IsDir(t, <<>>)
    /\ \A p \in DOMAIN t, q \in Path : IsPrefix(q, p) /\ q # p => IsDir(t, q)
    /\ \A p \in DOMAIN t : t[p].id \in 1 .. last
    /\ \A p, q \in DOMAIN t : t[p].id = t[q].id => p = q

(* What is left of t in u: all of it but what was at the paths gone; only  *)
(* the directory at d has other data.                                      *)
Keeps(u, t, d, x) == /\ DOMAIN t \subseteq DOMAIN u /\ Objects(u)
                     /\ \A y \in DOMAIN t : /\ u[y].id = t[y].id /\ u[y].kind = t[y].kind
                                            /\ u[y].data = IF y = d THEN x ELSE t[y].data
AfterStamp(u, t, d, x) == DOMAIN u = DOMAIN t /\ Keeps(u, t, d, x)
AfterMake(u, t, p, i, k, x) == /\ DOMAIN u = DOMAIN t \cup {p} /\ Keeps(u, t, Parent(p), Now)
                               /\ u[p].id = i /\ u[p].kind = k /\ u[p].data = x
AfterRemove(u, t, p) == /\ DOMAIN u = DOMAIN t \ {p} /\ Objects(u)
                        /\ \A y \in DOMAIN u : /\ u[y].id = t[y].id /\ u[y].kind = t[y].kind
                                               /\ u[y].data = IF y = Parent(p) THEN Now ELSE t[y].data

LEMMA StampedIs ==
    ASSUME NEW t, Objects(t), NEW d, NEW x
    PROVE  AfterStamp(Stamped(t, d, x), t, d, x)
  BY DEF Stamped, Objects, IsObject, AfterStamp, Keeps

LEMMA TouchedIs ==
    ASSUME NEW t, Objects(t), NEW p
    PROVE  AfterStamp(Touched(t, p), t, Parent(p), Now)
  BY DEF Touched, Objects, IsObject, AfterStamp, Keeps

(* Whatever is below p is there, and nothing else is in the way.           *)
LEMMA Ancestors ==
    ASSUME NEW t, NEW last, WellFormed(t, last), NEW p \in DOMAIN t, NEW q \in Path, IsPrefix(q, p)
    PROVE  q \in DOMAIN t /\ (q # p => IsDir(t, q))
  BY DEF WellFormed, IsDir

LEMMA DirectoryAbove ==
    ASSUME NEW t, NEW last, WellFormed(t, last), NEW p \in Path, p # <<>>, IsDir(t, Parent(p)),
           NEW q \in Path, IsPrefix(q, p), q # p
    PROVE  IsDir(t, q)
  <1>1. IsPrefix(q, Parent(p)) /\ Parent(p) \in Path /\ Parent(p) \in DOMAIN t
    BY PrefixOfParent, ParentIs DEF IsDir
  <1> QED BY <1>1 DEF WellFormed

LEMMA MadeIs ==
    ASSUME NEW t, Objects(t), NEW p, p \notin DOMAIN t, NEW i, NEW k \in Kinds, NEW x, Parent(p) # p
    PROVE  AfterMake(Made(t, p, i, k, x), t, p, i, k, x)
  <1> DEFINE o == [id |-> i, kind |-> k, data |-> x]
             v == Extended(t, p, o)
  <1>1. DOMAIN v = DOMAIN t \cup {p} /\ v[p] = o /\ \A y \in DOMAIN t : v[y] = t[y]
    BY DEF Extended
  <1>2. IsObject(o) /\ o.id = i /\ o.kind = k /\ o.data = x
    BY DEF IsObject
  <1>3. Made(t, p, i, k, x) = Touched(v, p)
    BY DEF Made
  <1> HIDE DEF v, o
  <1>4. Objects(v)
    BY <1>1, <1>2 DEF Objects
  <1>5. AfterStamp(Touched(v, p), v, Parent(p), Now)
    BY <1>4, TouchedIs
  <1>6. AfterMake(Touched(v, p), t, p, i, k, x)
    BY <1>1, <1>2, <1>5 DEF AfterStamp, AfterMake, Keeps
  <1> QED BY <1>3, <1>6

LEMMA RemovedIs ==
    ASSUME NEW t, Objects(t), NEW p \in DOMAIN t
    PROVE  AfterRemove(Removed(t, p), t, p)
  <1> DEFINE v == [q \in DOMAIN t \ {p} |-> t[q]]
  <1>1. DOMAIN v = DOMAIN t \ {p} /\ (\A y \in DOMAIN v : v[y] = t[y]) /\ Removed(t, p) = Touched(v, p)
    BY DEF Removed
  <1> HIDE DEF v
  <1>2. Objects(v)
    BY <1>1 DEF Objects
  <1>3. AfterStamp(Touched(v, p), v, Parent(p), Now)
    BY <1>2, TouchedIs
  <1>4. AfterRemove(Touched(v, p), t, p)
    BY <1>1, <1>3 DEF AfterStamp, AfterRemove, Keeps
  <1> QED BY <1>1, <1>4

LEMMA MadeWellFormed ==
    ASSUME NEW t, NEW last \in Nat, WellFormed(t, last), NEW p \in Path, p \notin DOMAIN t, p # <<>>,
           IsDir(t, Parent(p)), NEW kind \in Kinds, NEW data
    PROVE  WellFormed(Made(t, p, last + 1, kind, data), last + 1)
  <1> DEFINE u == Made(t, p, last + 1, kind, data)
  <1>1. Parent(p) # p
    BY ParentIs
  <1>2. /\ DOMAIN u = DOMAIN t \cup {p} /\ Objects(u)
        /\ u[p].id = last + 1 /\ u[p].kind = kind
        /\ \A x \in DOMAIN t : u[x].id = t[x].id /\ u[x].kind = t[x].kind
    <2>1. Objects(t)
      BY DEF WellFormed
    <2>2. AfterMake(u, t, p, last + 1, kind, data)
      BY <1>1, <2>1, MadeIs
    <2> QED BY <2>2 DEF AfterMake, Keeps
  <1> HIDE DEF u
  <1>3. \A x \in DOMAIN t : IsDir(t, x) => IsDir(u, x)
    BY <1>2 DEF IsDir
  <1>4. ASSUME NEW x \in DOMAIN u, NEW q \in Path, IsPrefix(q, x), q # x
        PROVE  IsDir(u, q)
    <2>1. CASE x \in DOMAIN t
      BY <1>3, <1>4, <2>1, Ancestors DEF IsDir
    <2>2. CASE x = p
      BY <1>3, <1>4, <2>2, DirectoryAbove DEF IsDir
    <2> QED BY <1>2, <2>1, <2>2
  <1>5. \A x \in DOMAIN u : u[x].id \in 1 .. (last + 1)
    BY <1>2 DEF WellFormed
  <1>6. \A x, y \in DOMAIN u : u[x].id = u[y].id => x = y
    <2>1. \A x \in DOMAIN t : u[x].id \in 1 .. last /\ u[x].id # last + 1
      BY <1>2 DEF WellFormed
    <2> QED BY <1>2, <2>1 DEF WellFormed
  <1>7. DOMAIN u \subseteq Path /\ IsDir(u, <<>>)
    BY <1>2, <1>3 DEF WellFormed, IsDir
  <1> QED BY <1>2, <1>4, <1>5, <1>6, <1>7 DEF WellFormed, u

LEMMA RemovedWellFormed ==
    ASSUME NEW t, NEW last \in Nat, WellFormed(t, last), NEW p \in DOMAIN t, p # <<>>, IsFile(t, p) \/ Empty(t, p)
    PROVE  WellFormed(Removed(t, p), last)
  <1> DEFINE u == Removed(t, p)
  <1>1. /\ DOMAIN u = DOMAIN t \ {p} /\ Objects(u)
        /\ \A x \in DOMAIN u : u[x].id = t[x].id /\ u[x].kind = t[x].kind
    BY RemovedIs DEF WellFormed, AfterRemove
  <1> HIDE DEF u
  <1>2. \A x \in DOMAIN t : IsPrefix(p, x) => x = p
    <2>1. CASE IsFile(t, p)
      BY <2>1, Ancestors DEF IsDir, IsFile, WellFormed
    <2>2. CASE Empty(t, p)
      BY <2>2 DEF Empty, Under
    <2> QED BY <2>1, <2>2
  <1>3. ASSUME NEW x \in DOMAIN u, NEW q \in Path, IsPrefix(q, x), q # x
        PROVE  IsDir(u, q)
    <2>1. IsDir(t, q) /\ q # p
      BY <1>1, <1>2, <1>3, Ancestors
    <2> QED BY <1>1, <2>1 DEF IsDir
  <1>4. DOMAIN u \subseteq Path /\ IsDir(u, <<>>)
    BY <1>1 DEF WellFormed, IsDir
  <1> QED BY <1>1, <1>3, <1>4 DEF WellFormed, u

LEMMA StampedWellFormed ==
    ASSUME NEW t, NEW last \in Nat, WellFormed(t, last), NEW p, NEW data
    PROVE  WellFormed(Stamped(t, p, data), last)
  <1> DEFINE u == Stamped(t, p, data)
  <1>1. DOMAIN u = DOMAIN t /\ Objects(u) /\ \A x \in DOMAIN t : u[x].id = t[x].id /\ u[x].kind = t[x].kind
    BY StampedIs DEF WellFormed, AfterStamp, Keeps
  <1> HIDE DEF u
  <1>2. \A x \in Path : IsDir(u, x) <=> IsDir(t, x)
    BY <1>1 DEF IsDir
  <1> QED BY <1>1, <1>2, RootIsPath DEF WellFormed, u

(***************************************************************************)
(* A move: where what was at r is afterwards.                              *)
(***************************************************************************)
Landing(p, q, r) == IF IsPrefix(p, r) THEN q \o Rest(p, r) ELSE r

Movable(t, p, q) ==
    /\ p \in DOMAIN t /\ p # <<>> /\ q \in Path /\ q \notin DOMAIN t /\ q # <<>>
    /\ IsDir(t, Parent(q)) /\ ~ IsPrefix(p, q)

AfterMove(u, t, p, q) ==
    /\ Objects(u) /\ \A y \in DOMAIN u : \E r \in DOMAIN t : y = Landing(p, q, r)
    /\ \A r \in DOMAIN t : /\ Landing(p, q, r) \in DOMAIN u
                           /\ u[Landing(p, q, r)].id = t[r].id /\ u[Landing(p, q, r)].kind = t[r].kind
                           /\ t[r].kind = "File" => u[Landing(p, q, r)].data = t[r].data

LEMMA LandingIs ==
    ASSUME NEW p \in Path, NEW q \in Path, NEW r \in Path, IsPrefix(p, r)
    PROVE  /\ Landing(p, q, r) \in Path /\ IsPrefix(q, Landing(p, q, r))
           /\ Rest(q, Landing(p, q, r)) = Rest(p, r) /\ p \o Rest(q, Landing(p, q, r)) = r
  <1>1. Rest(p, r) \in Path /\ p \o Rest(p, r) = r
    BY RestIs
  <1> QED BY <1>1, ConcatIs DEF Landing

LEMMA LandingBelow ==
    ASSUME NEW p \in Path, NEW q \in Path, NEW r \in Path, NEW y \in Path, IsPrefix(p, r), IsPrefix(q, y),
           IsPrefix(y, Landing(p, q, r)), y # Landing(p, q, r)
    PROVE  \E z \in Path : IsPrefix(z, r) /\ z # r /\ Landing(p, q, z) = y
  <1> DEFINE x == Landing(p, q, r)
             s == Rest(q, y)
             z == p \o s
  <1>1. x \in Path /\ IsPrefix(q, x) /\ Rest(q, x) = Rest(p, r)
    BY LandingIs
  <1>2. IsPrefix(y, x) /\ y # x
    OBVIOUS
  <1> HIDE DEF x
  <1>3. Len(p) \in Nat /\ Len(q) \in Nat /\ Len(r) \in Nat /\ Len(y) \in Nat /\ Len(x) \in Nat
    BY <1>1 DEF Path
  <1>4. /\ Len(p) <= Len(r) /\ \A i \in 1 .. Len(p) : p[i] = r[i]
        /\ Len(y) < Len(x) /\ \A i \in 1 .. Len(y) : y[i] = x[i]
        /\ Len(q) <= Len(y)
    <2>1. Len(y) <= Len(x) /\ \A i \in 1 .. Len(y) : y[i] = x[i]
      BY <1>1, <1>2, PrefixIs
    <2>2. Len(y) # Len(x)
      BY <1>1, <1>2, <2>1, SeqEqual DEF Path
    <2> QED BY <1>3, <2>1, <2>2, PrefixIs
  <1>5. Len(Rest(q, x)) = Len(x) - Len(q) /\ \A i \in 1 .. Len(x) - Len(q) : Rest(q, x)[i] = x[Len(q) + i]
    BY <1>1, RestIs
  <1>6. Len(Rest(p, r)) = Len(r) - Len(p) /\ \A i \in 1 .. Len(r) - Len(p) : Rest(p, r)[i] = r[Len(p) + i]
    BY RestIs
  <1>7. /\ s \in Path /\ Len(s) = Len(y) - Len(q) /\ q \o s = y
        /\ \A i \in 1 .. Len(y) - Len(q) : s[i] = y[Len(q) + i]
    BY RestIs
  <1> HIDE DEF s
  <1>8. /\ z \in Path /\ Len(z) = Len(p) + Len(s) /\ IsPrefix(p, z) /\ Rest(p, z) = s
        /\ \A i \in 1 .. Len(p) : z[i] = p[i]
        /\ \A i \in 1 .. Len(s) : z[Len(p) + i] = s[i]
    BY <1>7, ConcatIs
  <1> HIDE DEF z
  <1>9. Len(x) - Len(q) = Len(r) - Len(p)
    BY <1>1, <1>5, <1>6
  <1>10. \A i \in 1 .. Len(s) : z[Len(p) + i] = r[Len(p) + i]
    <2> TAKE i \in 1 .. Len(s)
    <2>1. i \in 1 .. Len(y) - Len(q) /\ i \in 1 .. Len(x) - Len(q) /\ i \in 1 .. Len(r) - Len(p) /\ Len(q) + i \in 1 .. Len(y)
      BY <1>3, <1>4, <1>7, <1>9
    <2>2. s[i] = x[Len(q) + i]
      BY <1>4, <1>7, <2>1
    <2>3. x[Len(q) + i] = r[Len(p) + i]
      BY <1>1, <1>5, <1>6, <2>1
    <2> QED BY <1>8, <2>2, <2>3
  <1>11. \A i \in 1 .. Len(z) : z[i] = r[i]
    <2> TAKE i \in 1 .. Len(z)
    <2>1. CASE i <= Len(p)
      BY <1>3, <1>4, <1>8, <2>1
    <2>2. CASE ~ (i <= Len(p))
      <3>1. i - Len(p) \in 1 .. Len(s) /\ i = Len(p) + (i - Len(p))
        BY <1>3, <1>4, <1>7, <1>8, <2>2
      <3> QED BY <1>10, <3>1
    <2> QED BY <2>1, <2>2
  <1>12. Len(z) < Len(r)
    BY <1>3, <1>4, <1>7, <1>8, <1>9
  <1>13. IsPrefix(z, r) /\ z # r
    <2>1. Len(z) \in Nat /\ Len(z) <= Len(r) /\ Len(z) # Len(r)
      BY <1>3, <1>8, <1>12 DEF Path
    <2>2. IsPrefix(z, r)
      BY <1>8, <1>11, <2>1, PrefixIs
    <2> QED BY <2>1, <2>2
  <1>14. Landing(p, q, z) = y
    BY <1>7, <1>8 DEF Landing
  <1> QED BY <1>8, <1>13, <1>14

LEMMA MovedIs ==
    ASSUME NEW t, NEW last, WellFormed(t, last), NEW p, NEW q, Movable(t, p, q)
    PROVE  AfterMove(Moved(t, p, q), t, p, q)
  <1>1. p \in Path /\ q \in Path /\ DOMAIN t \subseteq Path /\ Objects(t)
    BY DEF Movable, WellFormed
  <1> DEFINE kept == DOMAIN t \ Under(t, p)
             new  == {q \o Rest(p, r) : r \in Under(t, p)}
             here == [r \in kept \cup new |-> IF r \in kept THEN t[r] ELSE t[p \o Rest(q, r)]]
  <1>2. Moved(t, p, q) = Touched(Touched(here, p), q)
    BY DEF Moved
  <1>3. DOMAIN here = kept \cup new
    OBVIOUS
  <1>4. \A x \in kept : x \in DOMAIN t /\ ~ IsPrefix(p, x) /\ ~ IsPrefix(q, x) /\ Landing(p, q, x) = x
    <2>1. \A x \in DOMAIN t : ~ IsPrefix(q, x)
      BY Ancestors DEF Movable
    <2> QED BY <2>1 DEF Under, Landing
  <1>5. \A x \in Under(t, p) : /\ x \in DOMAIN t /\ IsPrefix(p, x) /\ Landing(p, q, x) \in new
                               /\ IsPrefix(q, Landing(p, q, x)) /\ p \o Rest(q, Landing(p, q, x)) = x
    BY <1>1, LandingIs DEF Under, Landing
  <1>6. \A x \in DOMAIN t : Landing(p, q, x) \in DOMAIN here /\ here[Landing(p, q, x)] = t[x]
    <2> TAKE x \in DOMAIN t
    <2>1. CASE x \in kept
      BY <1>4, <2>1
    <2>2. CASE x \in Under(t, p)
      <3>1. Landing(p, q, x) \notin kept /\ Landing(p, q, x) \in new /\ p \o Rest(q, Landing(p, q, x)) = x
        BY <1>4, <1>5, <2>2
      <3> QED BY <3>1
    <2> QED BY <2>1, <2>2
  <1>7. DOMAIN here = {Landing(p, q, r) : r \in DOMAIN t}
    <2>1. \A x \in kept \cup new : \E r \in DOMAIN t : x = Landing(p, q, r)
      BY <1>4, <1>5 DEF Landing
    <2> QED BY <1>3, <1>6, <2>1
  <1> HIDE DEF here, kept, new
  <1>8. Objects(here)
    BY <1>1, <1>6, <1>7 DEF Objects
  <1> DEFINE v == Touched(here, p)
             u == Touched(v, q)
  <1>9. AfterStamp(v, here, Parent(p), Now)
    BY <1>8, TouchedIs
  <1>10. Moved(t, p, q) = u
    BY <1>2
  <1> HIDE DEF v
  <1>11. AfterStamp(u, v, Parent(q), Now)
    BY <1>9, TouchedIs DEF AfterStamp, Keeps
  <1> HIDE DEF u
  <1>12. ASSUME NEW r \in DOMAIN t, t[r].kind = "File"
         PROVE  Landing(p, q, r) # Parent(p) /\ Landing(p, q, r) # Parent(q)
    <2>1. IsDir(t, Parent(p)) /\ IsDir(t, Parent(q)) /\ Parent(p) \in Path /\ Parent(q) \in Path
      BY <1>1, PrefixOfParent, ParentIs DEF Movable, WellFormed
    <2>2. r # Parent(p) /\ r # Parent(q)
      BY <1>12, <2>1 DEF IsDir
    <2>3. CASE IsPrefix(p, r)
      <3>1. IsPrefix(q, Landing(p, q, r))
        BY <1>1, <2>3, LandingIs
      <3>2. ~ IsPrefix(q, Parent(p)) /\ ~ IsPrefix(q, Parent(q))
        BY <2>1, Ancestors DEF Movable, IsDir
      <3> QED BY <3>1, <3>2
    <2>4. CASE ~ IsPrefix(p, r)
      BY <2>2, <2>4 DEF Landing
    <2> QED BY <2>3, <2>4
  <1>13. AfterMove(u, t, p, q)
    <2>1. DOMAIN u = DOMAIN here /\ Objects(u)
      BY <1>9, <1>11 DEF AfterStamp, Keeps
    <2>2. \A y \in DOMAIN here : u[y].id = here[y].id /\ u[y].kind = here[y].kind
      BY <1>9, <1>11 DEF AfterStamp, Keeps
    <2>3. \A y \in DOMAIN here : y # Parent(p) /\ y # Parent(q) => u[y].data = here[y].data
      BY <1>9, <1>11 DEF AfterStamp, Keeps
    <2>4. \A y \in DOMAIN u : \E r \in DOMAIN t : y = Landing(p, q, r)
      BY <1>7, <2>1
    <2>5. \A r \in DOMAIN t : /\ Landing(p, q, r) \in DOMAIN u
                              /\ u[Landing(p, q, r)].id = t[r].id /\ u[Landing(p, q, r)].kind = t[r].kind
      BY <1>6, <2>1, <2>2
    <2>6. \A r \in DOMAIN t : t[r].kind = "File" => u[Landing(p, q, r)].data = t[r].data
      BY <1>6, <1>12, <2>3
    <2> QED BY <2>1, <2>4, <2>5, <2>6 DEF AfterMove
  <1> QED BY <1>10, <1>13

LEMMA MovedWellFormed ==
    ASSUME NEW t, NEW last \in Nat, WellFormed(t, last), NEW p, NEW q, Movable(t, p, q)
    PROVE  WellFormed(Moved(t, p, q), last)
  <1> DEFINE u == Moved(t, p, q)
  <1>1. p \in Path /\ q \in Path /\ DOMAIN t \subseteq Path
    BY DEF Movable, WellFormed
  <1>2. /\ Objects(u) /\ \A x \in DOMAIN u : \E r \in DOMAIN t : x = Landing(p, q, r)
        /\ \A r \in DOMAIN t : Landing(p, q, r) \in DOMAIN u /\ u[Landing(p, q, r)].id = t[r].id /\ u[Landing(p, q, r)].kind = t[r].kind
    BY MovedIs DEF AfterMove
  <1> HIDE DEF u
  <1>3. \A r \in DOMAIN t : Landing(p, q, r) \in Path
    BY <1>1, LandingIs DEF Landing
  <1>4. \A r \in DOMAIN t : IsDir(t, r) => IsDir(u, Landing(p, q, r))
    BY <1>2 DEF IsDir
  <1>5. ASSUME NEW r \in Path, IsDir(t, r), ~ IsPrefix(p, r)
        PROVE  IsDir(u, r)
    BY <1>4, <1>5 DEF Landing, IsDir
  <1>6. ASSUME NEW r \in DOMAIN t, NEW y \in Path, IsPrefix(y, Landing(p, q, r)), y # Landing(p, q, r)
        PROVE  IsDir(u, y)
    <2>1. CASE ~ IsPrefix(p, r)
      <3>1. IsPrefix(y, r) /\ y # r
        BY <1>6, <2>1 DEF Landing
      <3>2. IsDir(t, y) /\ ~ IsPrefix(p, y)
        BY <1>1, <2>1, <3>1, Ancestors, PrefixOrder
      <3> QED BY <1>5, <3>2
    <2>2. CASE IsPrefix(p, r)
      <3> DEFINE x == Landing(p, q, r)
      <3>1. x \in Path /\ IsPrefix(q, x) /\ Rest(q, x) = Rest(p, r) /\ p \o Rest(q, x) = r
        BY <1>1, <2>2, LandingIs
      <3>2. IsPrefix(y, x) /\ y # x
        BY <1>6
      <3> HIDE DEF x
      <3>3. CASE IsPrefix(q, y)
        <4>1. PICK z \in Path : IsPrefix(z, r) /\ z # r /\ Landing(p, q, z) = y
          BY <1>1, <2>2, <3>2, <3>3, LandingBelow DEF x
        <4>2. IsDir(t, z)
          BY <4>1, Ancestors
        <4> QED BY <1>2, <1>4, <4>1, <4>2 DEF IsDir
      <3>4. CASE ~ IsPrefix(q, y)
        <4>1. IsPrefix(y, q) /\ y # q
          BY <1>1, <3>1, <3>2, <3>4, PrefixOrder
        <4>2. IsDir(t, y)
          BY <1>1, <4>1, DirectoryAbove DEF Movable
        <4>3. ~ IsPrefix(p, y)
          BY <1>1, <4>1, PrefixOrder DEF Movable
        <4> QED BY <1>5, <4>2, <4>3
      <3> QED BY <3>3, <3>4
    <2> QED BY <2>1, <2>2
  <1>7. IsDir(u, <<>>)
    <2>1. ~ IsPrefix(p, <<>>)
      BY <1>1, PrefixOrder, RootIsPath DEF Movable
    <2> QED BY <1>5, <2>1, RootIsPath DEF WellFormed
  <1>8. \A x \in DOMAIN u : u[x].id \in 1 .. last
    BY <1>2 DEF WellFormed
  <1>9. \A x, y \in DOMAIN u : u[x].id = u[y].id => x = y
    BY <1>2 DEF WellFormed
  <1> QED BY <1>2, <1>3, <1>6, <1>7, <1>8, <1>9 DEF WellFormed, u

------------------------------------------------------------------------------
(***************************************************************************)
(* Names.                                                                  *)
(***************************************************************************)
LEMMA VisibleIs ==
    ASSUME NEW p, VisiblePath(p)
    PROVE  /\ p \in Path /\ p # <<>> /\ ~ Hidden(p)
           /\ Last(p) \in VisibleLeaf /\ Last(p)[1] \in VisibleForms /\ p[1] \in VisibleLeaf
           /\ \A l \in VisibleLeaf : VisiblePath(Beside(p, l))
  <1>1. p \in Seq(VisibleLeaf) /\ p # <<>> /\ Len(p) \in Nat \ {0}
    BY DEF VisiblePath
  <1>2. p \in Path
    BY <1>1 DEF Path, Leaf
  <1>3. \A i \in 1 .. Len(p) : p[i] \in VisibleLeaf
    BY <1>1
  <1>4. \A l \in VisibleLeaf : l[1] \in VisibleForms
    BY DEF VisibleLeaf
  <1>5. Last(p) \in VisibleLeaf /\ p[1] \in VisibleLeaf
    BY <1>1, <1>3 DEF Last
  <1>6. ~ Hidden(p)
    BY <1>1, <1>3, <1>4 DEF Hidden
  <1>7. \A l \in VisibleLeaf : VisiblePath(Beside(p, l))
    <2> TAKE l \in VisibleLeaf
    <2>1. Parent(p) \in Path /\ Len(Parent(p)) = Len(p) - 1 /\ \A i \in 1 .. Len(p) - 1 : Parent(p)[i] = p[i]
      BY <1>1, <1>2, ParentIs
    <2>2. \A i \in 1 .. Len(Parent(p)) : Parent(p)[i] \in VisibleLeaf
      BY <1>1, <1>3, <2>1
    <2>3. Parent(p) \in Seq(VisibleLeaf)
      BY <2>1, <2>2, SeqDef, ElementOfSeq DEF Path
    <2>4. Append(Parent(p), l) \in Seq(VisibleLeaf) /\ Append(Parent(p), l) # <<>>
      BY <2>3, AppendProperties
    <2> QED BY <2>4 DEF VisiblePath, Beside
  <1> QED BY <1>1, <1>2, <1>4, <1>5, <1>6, <1>7

LEMMA InternalIs ==
    ASSUME NEW p, VisiblePath(p), NEW form \in InternalForms, NEW n \in Nat
    PROVE  /\ Internal(p, form, n) \in Path /\ Internal(p, form, n) # <<>>
           /\ Len(Internal(p, form, n)) = Len(p) /\ Parent(Internal(p, form, n)) = Parent(p)
           /\ Last(Internal(p, form, n)) = <<form, Last(p), n>> /\ Last(Internal(p, form, n))[1] = form
           /\ Last(Internal(p, form, n))[3] = n
  <1>1. p \in Path /\ p # <<>> /\ Last(p) \in VisibleLeaf
    BY VisibleIs
  <1>2. <<form, Last(p), n>> \in Leaf
    BY <1>1 DEF Leaf
  <1>3. Internal(p, form, n) = Beside(p, <<form, Last(p), n>>)
    BY DEF Internal
  <1> QED BY <1>1, <1>2, <1>3, BesideIs

LEMMA RenamedIs ==
    ASSUME NEW p \in Path, p # <<>>, NEW form \in VisibleForms, NEW n \in Nat
    PROVE  /\ Renamed(p, form, n) \in Path /\ Renamed(p, form, n) # <<>>
           /\ Len(Renamed(p, form, n)) = Len(p) /\ Parent(Renamed(p, form, n)) = Parent(p)
           /\ Last(Renamed(p, form, n)) = <<form, Last(p)[2], n>> /\ Last(Renamed(p, form, n))[1] = form
           /\ Last(Renamed(p, form, n))[3] = n
           /\ VisiblePath(p) => VisiblePath(Renamed(p, form, n))
  <1>1. Last(p) \in Leaf
    BY ParentIs
  <1>2. <<form, Last(p)[2], n>> \in Leaf
    BY <1>1 DEF Leaf, VisibleLeaf
  <1>3. Renamed(p, form, n) = Beside(p, <<form, Last(p)[2], n>>)
    BY DEF Renamed
  <1>4. VisiblePath(p) => <<form, Last(p)[2], n>> \in VisibleLeaf
    BY VisibleIs DEF VisibleLeaf
  <1> QED BY <1>2, <1>3, <1>4, BesideIs, VisibleIs

LEMMA NextNameIs ==
    ASSUME NEW p, VisiblePath(p)
    PROVE  VisiblePath(NextName(p))
  <1>1. p \in Path /\ p # <<>> /\ Last(p) \in VisibleLeaf
    BY VisibleIs
  <1>2. Last(p)[1] \in VisibleForms /\ Last(p)[3] + 1 \in Nat
    BY <1>1 DEF VisibleLeaf
  <1> QED BY <1>1, <1>2, RenamedIs DEF NextName

LEMMA LeafNumber ==
    ASSUME NEW p \in Path, p # <<>>
    PROVE  Last(p)[3] \in Nat
  BY ParentIs DEF Leaf, VisibleLeaf

LEMMA MinOfNats ==
    ASSUME NEW S, S \subseteq Nat, IsFiniteSet(S), S # {}
    PROVE  Min(S) \in S /\ \A x \in S : Min(S) <= x
  <1>1. Max(S) \in S /\ \A x \in S : x <= Max(S)
    BY MaxOfNats
  <1> DEFINE m == Max(S)
             T == {m - x : x \in S}
  <1>2. m \in Nat /\ T \subseteq Nat /\ T # {}
    <2>1. m \in Nat /\ \A x \in S : x \in Nat /\ x <= m
      BY <1>1
    <2> HIDE DEF m
    <2>2. \A x \in S : m - x \in Nat
      BY <2>1
    <2>3. \E x \in S : m - x \in T
      OBVIOUS
    <2> QED BY <2>1, <2>2, <2>3
  <1>3. IsFiniteSet(T)
    <2>1. \A x \in T : x <= m
      BY <1>1, <1>2
    <2> HIDE DEF T, m
    <2> QED BY <1>2, <2>1, FS_BoundedSetOfNaturals
  <1>4. Max(T) \in T /\ \A x \in T : x <= Max(T)
    <2> HIDE DEF T, m
    <2> QED BY <1>2, <1>3, MaxOfNats
  <1>5. PICK y \in S : Max(T) = m - y
    BY <1>4
  <1>6. ASSUME NEW x \in S PROVE y <= x
    <2>1. m - x \in T
      OBVIOUS
    <2>2. m - x <= m - y
      BY <1>4, <1>5, <2>1
    <2> QED BY <1>2, <2>2
  <1> QED BY <1>6 DEF Min

(***************************************************************************)
(* The scenario.                                                           *)
(***************************************************************************)
TopPaths == {e.path : e \in Range(Tops)}
Sources  == {m.source : m \in Range(Promote)}

LEMMA SnapshotIs ==
    ASSUME NEW s, Snapshot(s)
    PROVE  /\ s \in Seq(Range(s)) /\ Len(s) \in Nat /\ DOMAIN s = 1 .. Len(s)
           /\ DOMAIN ShapeOf(s) = {e.path : e \in Range(s)}
           /\ \A i \in 1 .. Len(s) :
                 /\ VisiblePath(s[i].path) /\ s[i].kind \in Kinds /\ s[i].data \notin Range(EditData)
                 /\ s[i].path \in DOMAIN ShapeOf(s)
                 /\ ShapeOf(s)[s[i].path].kind = s[i].kind /\ ShapeOf(s)[s[i].path].data = s[i].data
           /\ \A p \in DOMAIN ShapeOf(s) : \E i \in 1 .. Len(s) : s[i].path = p
           /\ \A p \in DOMAIN ShapeOf(s) : \A i \in 1 .. Len(p) - 1 : SubSeq(p, 1, i) \in DOMAIN ShapeOf(s)
  <1>1. s \in Seq(Range(s)) /\ Len(s) \in Nat /\ DOMAIN s = 1 .. Len(s)
    BY DEF Snapshot
  <1>2. DOMAIN ShapeOf(s) = {e.path : e \in Range(s)}
    BY DEF ShapeOf
  <1>3. \A e \in Range(s) : \E i \in 1 .. Len(s) : s[i] = e
    BY <1>1 DEF Range
  <1>4. \A i \in 1 .. Len(s) : s[i] \in Range(s)
    BY <1>1 DEF Range
  <1>5. ASSUME NEW i \in 1 .. Len(s)
        PROVE  ShapeOf(s)[s[i].path].kind = s[i].kind /\ ShapeOf(s)[s[i].path].data = s[i].data
    <2> DEFINE e == CHOOSE x \in Range(s) : x.path = s[i].path
    <2>1. e \in Range(s) /\ e.path = s[i].path
      BY <1>4
    <2>2. e = s[i]
      BY <1>1, <1>3, <2>1 DEF Snapshot
    <2>3. ShapeOf(s)[s[i].path] = [kind |-> e.kind, data |-> e.data]
      BY <1>4 DEF ShapeOf
    <2> HIDE DEF e
    <2>4. ShapeOf(s)[s[i].path] = [kind |-> s[i].kind, data |-> s[i].data]
      BY <2>2, <2>3
    <2> QED BY <2>4
  <1>6. \A p \in DOMAIN ShapeOf(s) : \E i \in 1 .. Len(s) : s[i].path = p
    BY <1>2, <1>3
  <1>7. \A p \in DOMAIN ShapeOf(s) : \A i \in 1 .. Len(p) - 1 : SubSeq(p, 1, i) \in DOMAIN ShapeOf(s)
    BY <1>2 DEF Snapshot
  <1>8. \A i \in 1 .. Len(s) :
           VisiblePath(s[i].path) /\ s[i].kind \in Kinds /\ s[i].data \notin Range(EditData) /\ s[i].path \in DOMAIN ShapeOf(s)
    BY <1>2, <1>4 DEF Snapshot, Kinds
  <1> QED BY <1>1, <1>2, <1>5, <1>6, <1>7, <1>8

LEMMA EntriesAre ==
    ASSUME scenario \in Scenarios
    PROVE  /\ Len(Entries) \in Nat
           /\ \A i \in 1 .. Len(Entries) :
                 /\ VisiblePath(Entries[i].path) /\ Entries[i].kind \in Kinds /\ Entries[i].data \notin Range(EditData)
                 /\ Entries[i].path \in DOMAIN TargetShape
                 /\ TargetShape[Entries[i].path].kind = Entries[i].kind
                 /\ TargetShape[Entries[i].path].data = Entries[i].data
           /\ \A p \in DOMAIN TargetShape :
                 /\ VisiblePath(p) /\ TargetShape[p].kind \in Kinds /\ TargetShape[p].data \notin Range(EditData)
                 /\ \A i \in 1 .. Len(p) - 1 : SubSeq(p, 1, i) \in DOMAIN TargetShape
  <1>1. Snapshot(Entries) /\ TargetShape = ShapeOf(Entries)
    BY ScenarioAssumption DEF Entries, TargetShape
  <1>2. /\ Len(Entries) \in Nat
        /\ \A i \in 1 .. Len(Entries) :
              /\ VisiblePath(Entries[i].path) /\ Entries[i].kind \in Kinds /\ Entries[i].data \notin Range(EditData)
              /\ Entries[i].path \in DOMAIN TargetShape
              /\ TargetShape[Entries[i].path].kind = Entries[i].kind
              /\ TargetShape[Entries[i].path].data = Entries[i].data
    BY <1>1, SnapshotIs
  <1>3. \A p \in DOMAIN TargetShape : \E i \in 1 .. Len(Entries) : Entries[i].path = p
    BY <1>1, SnapshotIs
  <1>4. \A p \in DOMAIN TargetShape : \A i \in 1 .. Len(p) - 1 : SubSeq(p, 1, i) \in DOMAIN TargetShape
    BY <1>1, SnapshotIs
  <1>5. ASSUME NEW p \in DOMAIN TargetShape
        PROVE  VisiblePath(p) /\ TargetShape[p].kind \in Kinds /\ TargetShape[p].data \notin Range(EditData)
    <2>1. PICK i \in 1 .. Len(Entries) : Entries[i].path = p
      BY <1>3
    <2> QED BY <1>2, <2>1
  <1> QED BY <1>2, <1>4, <1>5

LEMMA BaseIs ==
    ASSUME scenario \in Scenarios
    PROVE  /\ Len(scenario.base) \in Nat /\ DOMAIN scenario.base = 1 .. Len(scenario.base)
           /\ IsFiniteSet(Range(scenario.base))
           /\ \A i \in 1 .. Len(scenario.base) :
                 /\ VisiblePath(scenario.base[i].path) /\ scenario.base[i].kind \in Kinds
                 /\ scenario.base[i].data \notin Range(EditData)
                 /\ scenario.base[i] \in Range(scenario.base)
           /\ \A e \in Range(scenario.base) : VisiblePath(e.path) /\ \E i \in 1 .. Len(scenario.base) : scenario.base[i] = e
  <1> DEFINE s == scenario.base
  <1>1. Snapshot(s)
    BY ScenarioAssumption
  <1> HIDE DEF s
  <1>2. Len(s) \in Nat /\ DOMAIN s = 1 .. Len(s)
    BY <1>1, SnapshotIs
  <1>3. IsFiniteSet(Range(s))
    <2>0. s \in Seq(Range(s))
      BY <1>1 DEF Snapshot
    <2>1. s \in Surjection(1 .. Len(s), Range(s))
      BY <1>2, <2>0 DEF Range, Surjection
    <2>2. IsFiniteSet(1 .. Len(s))
      BY <1>2, FS_Interval
    <2> QED BY <2>1, <2>2, FS_Surjection
  <1>4. \A e \in Range(s) : VisiblePath(e.path) /\ \E i \in 1 .. Len(s) : s[i] = e
    BY <1>1, <1>2 DEF Range, Snapshot
  <1>5. \A i \in 1 .. Len(s) : /\ VisiblePath(s[i].path) /\ s[i].kind \in Kinds /\ s[i].data \notin Range(EditData)
                               /\ s[i] \in Range(s)
    BY <1>1, <1>2, SnapshotIs DEF Range
  <1> QED BY <1>2, <1>3, <1>4, <1>5 DEF s

LEMMA TopsAre ==
    ASSUME scenario \in Scenarios
    PROVE  /\ Len(Tops) \in Nat
           /\ \A i \in 1 .. Len(Tops) : Tops[i].path \in TopPaths
           /\ \A p \in TopPaths : VisiblePath(p) /\ Len(p) = 1 /\ \E i \in 1 .. Len(Tops) : Tops[i].path = p
           /\ \A e \in Range(scenario.base) : Len(e.path) = 1 => e.path \in TopPaths
           /\ \A p \in TopPaths : \E e \in Range(scenario.base) : e.path = p
  <1> DEFINE S == {e \in Range(scenario.base) : Len(e.path) = 1}
             n == Cardinality(S)
  <1>1. IsFiniteSet(S) /\ \A e \in S : VisiblePath(e.path)
    BY BaseIs, FS_Subset
  <1>2. Tops = SetToSeq(S)
    BY DEF Tops
  <1>3. n \in Nat /\ ExistsBijection(1 .. n, S)
    BY <1>1, FS_CardinalityType
  <1>4. \E f \in [1 .. n -> S] : IsInjective(f)
    BY <1>3 DEF ExistsBijection, Bijection, Injection
  <1>5. Tops \in [1 .. n -> S] /\ IsInjective(Tops)
    BY <1>2, <1>4 DEF SetToSeq
  <1>6. Tops \in Surjection(1 .. n, S)
    <2>1. Tops \in Injection(1 .. n, S)
      BY <1>5 DEF Injection
    <2>2. Cardinality(1 .. n) = n
      BY <1>3, FS_Interval
    <2> QED BY <1>1, <2>1, <2>2, FS_Injection
  <1> DEFINE T == Tops
  <1>7. T \in [1 .. n -> S] /\ \A e \in S : \E i \in 1 .. n : T[i] = e
    BY <1>6 DEF Surjection
  <1> HIDE DEF T
  <1>8. DOMAIN T = 1 .. n /\ Len(T) = n
    BY <1>3, <1>7
  <1>9. Range(T) = S
    BY <1>7, <1>8 DEF Range
  <1>10. TopPaths = {e.path : e \in S}
    BY <1>9 DEF TopPaths, T
  <1> HIDE DEF n
  <1>11. \A i \in 1 .. Len(T) : T[i].path \in TopPaths
    BY <1>7, <1>8, <1>10
  <1>12. \A p \in TopPaths : VisiblePath(p) /\ Len(p) = 1 /\ \E i \in 1 .. Len(T) : T[i].path = p
    BY <1>1, <1>7, <1>8, <1>10
  <1>13. \A e \in Range(scenario.base) : Len(e.path) = 1 => e.path \in TopPaths
    BY <1>10
  <1>14. \A p \in TopPaths : \E e \in Range(scenario.base) : e.path = p
    BY <1>10
  <1> QED BY <1>3, <1>8, <1>11, <1>12, <1>13, <1>14 DEF T, n

LEMMA PromoteAre ==
    ASSUME scenario \in Scenarios
    PROVE  /\ Len(Promote) \in Nat
           /\ \A i \in 1 .. Len(Promote) :
                 /\ Promote[i].source \in Sources /\ PromotedTo(Promote[i].source) = Promote[i].target
                 /\ Promote[i].source # Promote[i].target
                 /\ Promote[i].target \in DOMAIN TargetShape /\ TargetShape[Promote[i].target].kind = "File"
           /\ \A s \in Sources :
                 /\ VisiblePath(s) /\ \E i \in 1 .. Len(Promote) : Promote[i].source = s
                 /\ \E i \in 1 .. Len(scenario.base) : scenario.base[i].path = s /\ scenario.base[i].kind = "File"
                 /\ Top(s) \in TopPaths
                 /\ s \in DOMAIN BaseShape
           /\ \A s, z \in Sources : PromotedTo(s) = PromotedTo(z) => s = z
  <1> DEFINE P == Promote
  <1>1. Moves(scenario) /\ Snapshot(scenario.base) /\ Snapshot(scenario.target) /\ P = scenario.promote
    BY ScenarioAssumption DEF Promote
  <1>2. P \in Seq(Range(P)) /\ Len(P) \in Nat /\ DOMAIN P = 1 .. Len(P)
    BY <1>1 DEF Moves
  <1>3. Sources = {m.source : m \in Range(P)}
    BY DEF Sources
  <1>t. \A s : PromotedTo(s) = (CHOOSE m \in Range(P) : m.source = s).target
    BY DEF PromotedTo
  <1> HIDE DEF P
  <1>4. \A i \in 1 .. Len(P) : P[i] \in Range(P)
    BY <1>2 DEF Range
  <1>5. \A m \in Range(P) : \E i \in 1 .. Len(P) : P[i] = m
    BY <1>2 DEF Range
  <1>6. \A i, j \in 1 .. Len(P) : P[i].source = P[j].source \/ P[i].target = P[j].target => i = j
    BY <1>1, <1>2 DEF Moves
  <1>7. ASSUME NEW i \in 1 .. Len(P)
        PROVE  P[i].source \in Sources /\ PromotedTo(P[i].source) = P[i].target
    <2> DEFINE c == CHOOSE m \in Range(P) : m.source = P[i].source
    <2>1. c \in Range(P) /\ c.source = P[i].source
      BY <1>4
    <2>2. c = P[i]
      BY <1>5, <1>6, <2>1
    <2> QED BY <1>3, <1>4, <1>t, <2>2
  <1>8. ASSUME NEW m \in Range(P)
        PROVE  /\ m.source # m.target
               /\ \E e \in Range(scenario.base) : e.path = m.source /\ e.kind = "File"
               /\ \E e \in Range(scenario.target) : e.path = m.target /\ e.kind = "File"
    BY <1>1 DEF Moves
  <1>9. ASSUME NEW m \in Range(P)
        PROVE  m.target \in DOMAIN TargetShape /\ TargetShape[m.target].kind = "File"
    <2>1. PICK e \in Range(Entries) : e.path = m.target /\ e.kind = "File"
      BY <1>8 DEF Entries
    <2>2. PICK i \in 1 .. Len(Entries) : Entries[i] = e
      BY <1>1, SnapshotIs DEF Entries, Range
    <2> QED BY <2>1, <2>2, EntriesAre
  <1>10. ASSUME NEW s \in Sources
         PROVE  /\ VisiblePath(s) /\ \E i \in 1 .. Len(P) : P[i].source = s
                /\ \E i \in 1 .. Len(scenario.base) : scenario.base[i].path = s /\ scenario.base[i].kind = "File"
                /\ Top(s) \in TopPaths /\ s \in DOMAIN BaseShape
    <2>1. PICK m \in Range(P) : m.source = s
      BY <1>3
    <2>2. PICK e \in Range(scenario.base) : e.path = s /\ e.kind = "File"
      BY <1>8, <2>1
    <2>3. VisiblePath(s) /\ \E i \in 1 .. Len(scenario.base) : scenario.base[i].path = s /\ scenario.base[i].kind = "File"
      BY <2>2, BaseIs
    <2>4. s \in DOMAIN BaseShape
      <3>1. DOMAIN BaseShape = {x.path : x \in Range(scenario.base)}
        BY DEF BaseShape, ShapeOf
      <3> QED BY <2>2, <3>1
    <2>5. \E d \in Range(scenario.base) : d.path = SubSeq(s, 1, 1)
      <3>1. CASE Len(s) = 1
        <4>1. s \in Path /\ SubSeq(s, 1, 1) = s
          BY <2>3, <3>1, VisibleIs, SubSeqProperties, SeqEqual DEF Path
        <4> QED BY <2>2, <4>1
      <3>2. CASE Len(s) # 1
        <4>1. 1 \in 1 .. Len(s) - 1
          <5>1. s \in Path /\ s # <<>>
            BY <2>3, VisibleIs
          <5>2. Len(s) \in Nat \ {0}
            BY <5>1, ParentIs
          <5>3. PICK n \in Nat \ {0} : n = Len(s)
            BY <5>2
          <5>4. 1 \in 1 .. n - 1
            BY <3>2, <5>3
          <5> QED BY <5>3, <5>4
        <4>2. \A i \in 1 .. Len(e.path) - 1 : \E d \in Range(scenario.base) : d.path = SubSeq(e.path, 1, i)
          BY <1>1, <2>2 DEF Snapshot
        <4>3. 1 \in 1 .. Len(e.path) - 1
          BY <2>2, <4>1
        <4> QED BY <2>2, <4>2, <4>3
      <3> QED BY <3>1, <3>2
    <2>6. Len(SubSeq(s, 1, 1)) = 1
      <3>1. s \in Path /\ Len(s) \in Nat \ {0}
        BY <2>3, VisibleIs DEF Path
      <3> QED BY <3>1, SubSeqProperties DEF Path
    <2>7. Top(s) \in TopPaths
      BY <2>5, <2>6, TopsAre DEF Top
    <2> QED BY <1>5, <2>1, <2>3, <2>4, <2>7
  <1>11. ASSUME NEW s \in Sources, NEW z \in Sources, PromotedTo(s) = PromotedTo(z)
         PROVE  s = z
    BY <1>6, <1>7, <1>10, <1>11
  <1>12. \A i \in 1 .. Len(P) : /\ P[i].source # P[i].target
                                /\ P[i].target \in DOMAIN TargetShape /\ TargetShape[P[i].target].kind = "File"
    BY <1>4, <1>8, <1>9
  <1> QED BY <1>2, <1>7, <1>10, <1>11, <1>12 DEF P

(* The hidden place of a captured path: its first leaf is a recovery name. *)
LEMMA HiddenAtIs ==
    ASSUME NEW s, VisiblePath(s)
    PROVE  /\ HiddenAt(s) \in Path /\ HiddenAt(s) # <<>> /\ Len(HiddenAt(s)) = Len(s)
           /\ HiddenAt(s)[1] = <<"recovery", s[1], 0>>
           /\ \A i \in 2 .. Len(s) : HiddenAt(s)[i] = s[i]
           /\ Len(s) = 1 => HiddenAt(s) = RecoveryName(s) /\ Top(s) = s
           /\ VisiblePath(Top(s)) /\ IsPrefix(RecoveryName(Top(s)), HiddenAt(s))
           /\ RecoveryName(Top(s)) = << <<"recovery", s[1], 0>> >>
  <1>1. s \in Path /\ Len(s) \in Nat \ {0} /\ s[1] \in VisibleLeaf
    BY VisibleIs DEF Path
  <1> DEFINE t == Top(s)
  <1>2. t \in Path /\ Len(t) = 1 /\ t[1] = s[1]
    BY <1>1, SubSeqProperties DEF Path, Top
  <1>3. VisiblePath(t)
    <2>1. t \in Seq(VisibleLeaf)
      <3>1. \A i \in 1 .. 1 : s[i] \in VisibleLeaf
        BY <1>1
      <3> QED BY <1>1, <3>1, SubSeqProperties DEF Top, VisiblePath
    <2>2. t # <<>>
      BY <1>2
    <2> HIDE DEF t
    <2> QED BY <2>1, <2>2 DEF VisiblePath
  <1>p. IsPrefix(t, s)
    BY <1>1, <1>2, PrefixIs
  <1>q. HiddenAt(s) = RecoveryName(t) \o Rest(t, s)
    BY DEF HiddenAt
  <1> HIDE DEF t
  <1> DEFINE r == RecoveryName(t)
             w == Rest(t, s)
  <1>4. r \in Path /\ r # <<>> /\ Len(r) = 1 /\ Last(r) = <<"recovery", Last(t), 0>>
    BY <1>2, <1>3, InternalIs DEF RecoveryName, InternalForms
  <1>5. Last(t) = s[1] /\ Last(r) = r[1]
    BY <1>2, <1>3, <1>4, ParentIs, VisibleIs
  <1>6. w \in Path /\ Len(w) = Len(s) - 1 /\ \A i \in 1 .. Len(s) - 1 : w[i] = s[1 + i]
    <2>1. /\ w \in Path /\ Len(w) = Len(s) - Len(t)
          /\ \A i \in 1 .. Len(s) - Len(t) : w[i] = s[Len(t) + i]
      BY <1>1, <1>2, <1>p, RestIs
    <2> QED BY <1>2, <2>1
  <1> HIDE DEF r, w
  <1>7. /\ r \o w \in Path /\ Len(r \o w) = Len(s) /\ (r \o w)[1] = <<"recovery", s[1], 0>>
        /\ \A i \in 1 .. Len(w) : (r \o w)[1 + i] = w[i]
        /\ IsPrefix(r, r \o w) /\ (w = <<>> => r \o w = r)
    <2>1. /\ r \o w \in Path /\ Len(r \o w) = Len(r) + Len(w)
          /\ \A i \in 1 .. Len(r) : (r \o w)[i] = r[i]
          /\ \A i \in 1 .. Len(w) : (r \o w)[Len(r) + i] = w[i]
          /\ IsPrefix(r, r \o w) /\ (w = <<>> => r \o w = r)
      BY <1>4, <1>6, ConcatIs
    <2>2. 1 \in 1 .. Len(r) /\ Len(r) + Len(w) = Len(s)
      BY <1>1, <1>4, <1>6
    <2>3. (r \o w)[1] = r[1] /\ r[1] = <<"recovery", s[1], 0>>
      BY <1>4, <1>5, <2>1, <2>2
    <2>4. \A i \in 1 .. Len(w) : (r \o w)[1 + i] = w[i]
      BY <1>4, <2>1
    <2> QED BY <2>1, <2>2, <2>3, <2>4
  <1>8. \A i \in 2 .. Len(s) : (r \o w)[i] = s[i]
    <2> TAKE i \in 2 .. Len(s)
    <2>1. i - 1 \in 1 .. Len(s) - 1 /\ 1 + (i - 1) = i
      BY <1>1
    <2>2. (r \o w)[1 + (i - 1)] = w[i - 1] /\ w[i - 1] = s[1 + (i - 1)]
      BY <1>6, <1>7, <2>1
    <2> QED BY <2>1, <2>2
  <1>9. Len(s) = 1 => r \o w = RecoveryName(s) /\ t = s
    <2>1. ASSUME Len(s) = 1 PROVE t = s /\ w = <<>>
      BY <1>1, <1>2, <1>6, <2>1, SeqEqual, EmptySeq DEF Path
    <2> QED BY <1>7, <2>1 DEF r
  <1>10. r = << <<"recovery", s[1], 0>> >>
    BY <1>4, <1>5, SeqEqual DEF Path
  <1>11. r \o w # <<>>
    BY <1>1, <1>7
  <1> QED BY <1>3, <1>7, <1>8, <1>9, <1>10, <1>11, <1>q DEF t, r, w

LEMMA NextItemIs ==
    ASSUME scenario \in Scenarios, NEW kind, NEW i \in Nat \ {0}
    PROVE  /\ NextItem(kind, i) \in Nat \ {0}
           /\ NextItem(kind, i) <= Len(Entries) => Entries[NextItem(kind, i)].kind = kind
  <1> DEFINE n == Len(Entries)
             S == {j \in i .. n : Entries[j].kind = kind}
  <1>1. n \in Nat
    BY EntriesAre
  <1>2. NextItem(kind, i) = IF S = {} THEN n + 1 ELSE Min(S)
    BY DEF NextItem
  <1> HIDE DEF n
  <1>3. S \subseteq Nat /\ \A j \in S : j <= n /\ j # 0 /\ Entries[j].kind = kind
    BY <1>1
  <1> HIDE DEF S
  <1>4. IsFiniteSet(S)
    BY <1>1, <1>3, FS_BoundedSetOfNaturals
  <1>5. S # {} => Min(S) \in S
    BY <1>3, <1>4, MinOfNats
  <1>6. NextItem(kind, i) \in Nat \ {0} /\ (NextItem(kind, i) <= n => Entries[NextItem(kind, i)].kind = kind)
    <2>1. CASE S = {}
      BY <1>1, <1>2, <2>1
    <2>2. CASE S # {}
      <3>1. NextItem(kind, i) \in S
        BY <1>2, <1>5, <2>2
      <3> QED BY <1>3, <3>1
    <2> QED BY <2>1, <2>2
  <1> QED BY <1>6 DEF n

LEMMA LastItemIs ==
    ASSUME scenario \in Scenarios, NEW kind, NEW i \in Nat
    PROVE  /\ LastItem(kind, i) \in Nat /\ LastItem(kind, i) <= i
           /\ LastItem(kind, i) # 0 => Entries[LastItem(kind, i)].kind = kind
  <1> DEFINE S == {j \in 1 .. i : Entries[j].kind = kind}
  <1>2. LastItem(kind, i) = IF S = {} THEN 0 ELSE Max(S)
    BY DEF LastItem
  <1>3. S \subseteq Nat /\ \A j \in S : j <= i /\ j # 0 /\ Entries[j].kind = kind
    OBVIOUS
  <1> HIDE DEF S
  <1>4. IsFiniteSet(S)
    BY <1>3, FS_BoundedSetOfNaturals
  <1>5. S # {} => Max(S) \in S
    BY <1>3, <1>4, MaxOfNats
  <1>6. S # {} => LastItem(kind, i) \in S
    BY <1>2, <1>5
  <1>7. S = {} => LastItem(kind, i) = 0
    BY <1>2
  <1>8. CASE S = {}
    BY <1>7, <1>8
  <1>9. CASE S # {}
    <2>1. PICK j \in S : j = LastItem(kind, i)
      BY <1>6, <1>9
    <2> QED BY <1>3, <2>1
  <1> QED BY <1>8, <1>9

(***************************************************************************)
(* The tables, one by one.                                                 *)
(***************************************************************************)
RowFields == {"order", "op", "phase", "path", "target", "kind", "id", "shape", "stamp", "origin",
              "attempt", "outcome", "state"}
Plain(a) == a.op = "rename" /\ a.shape = NoShape
Preserving(a) == a.outcome = "preserve_unknown"
IsTemp(p) == p # <<>> /\ Last(p)[1] = "temp"

RowOK(a) ==
    /\ DOMAIN a = RowFields
    /\ a.order \in Nat \ {0} /\ a.id \in 0 .. lastId /\ a.origin \in Nat /\ a.attempt \in Nat
    /\ a.path \in Path /\ a.target \in Path /\ a.kind \in Kinds /\ a.state \in {"intent", "completed"}
    /\ a.op \in {"create", "rename", "remove", "mtime", "restore"}
    /\ a.phase \in {"pre_base", "rollback", "post_base"}
    /\ a.op = "remove" \/ Plain(a) => a.path # <<>>
    /\ Plain(a) => a.target # <<>> /\ Parent(a.target) = Parent(a.path) /\ ~ IsTemp(a.target)
    /\ IsPromotion(a) => a.kind = "File" /\ a.phase = "pre_base" /\ a.id # None /\ VisiblePath(a.target)
    /\ a.op = "restore" => a.kind = "File" /\ a.phase = "rollback" /\ a.id # None
    /\ a.origin = None => a.attempt = 0
    /\ Preserving(a) => Plain(a) /\ a.origin # None /\ a.phase = "rollback" /\ IsTemp(a.path)
    /\ a.op = "create" => a.phase = "pre_base" /\ a.origin = None /\ IsTemp(a.path)
    /\ a.state = "intent" => a.outcome \in {"", "preserve_unknown"}
    /\ a.state = "intent" /\ a.origin # None => IsPromotion(a) \/ Preserving(a)

PathRowOK(r) ==
    /\ DOMAIN r = {"temp", "tempId", "targetId", "completed", "tombstone", "create"}
    /\ r.temp \in Nat /\ r.tempId \in 0 .. lastId /\ r.targetId \in 0 .. lastId /\ r.create \in Nat
    /\ r.completed \in BOOLEAN /\ r.tombstone \in BOOLEAN
RecoveryOK(r) ==
    /\ DOMAIN r = {"id", "shape", "completed", "tombstone"}
    /\ r.id \in Nat /\ r.completed \in BOOLEAN /\ r.tombstone \in BOOLEAN
LinkOK(l) == DOMAIN l = {"current", "rollback"} /\ l.current \in Nat \ {0} /\ l.rollback \in Nat

State == pending.state
Base == index = "base"

JournalTypes == /\ IsFiniteSet(journal) /\ \A a \in journal : RowOK(a)
                /\ \A a, c \in journal : a.order = c.order => a = c
PendingTypes == /\ DOMAIN pending = {"state", "stamp"}
                /\ State \in {"none", "pending", "applying", "rolling_back", "finalized"}
                /\ index \in {"none", "base", "target", "gone"}
RowsTypes == DOMAIN rows \subseteq DOMAIN TargetShape /\ \A p \in DOMAIN rows : PathRowOK(rows[p])
RecoveriesTypes == DOMAIN recoveries \subseteq TopPaths /\ \A p \in DOMAIN recoveries : RecoveryOK(recoveries[p])
LinksTypes == DOMAIN links \subseteq Sources /\ \A s \in DOMAIN links : LinkOK(links[s])
Types == /\ DOMAIN db = {"journal", "pending", "rows", "recoveries", "links", "index"}
         /\ JournalTypes /\ PendingTypes /\ RowsTypes /\ RecoveriesTypes /\ LinksTypes
Worlds == /\ scenario \in Scenarios /\ edits \in 0 .. scenario.edits
          /\ lastId \in Nat /\ Len(scenario.base) < lastId /\ WellFormed(tree, lastId)

(***************************************************************************)
(* Two intents at once are removals of one plan or a promotion's chain.    *)
(***************************************************************************)
RootOrder(a) == IF a.origin = None THEN a.order ELSE a.origin
Together(a, c) ==
    \/ \A x \in {a, c} : x.op = "remove" /\ x.phase = "post_base"
    \/ (\A x \in {a, c} : IsPromotion(x)) /\ RootOrder(a) = RootOrder(c) /\ a.attempt # c.attempt
IntentsTogether == \A a, c \in Intents : a # c => Together(a, c)

(***************************************************************************)
(* The tables against each other.                                          *)
(***************************************************************************)
Indexed ==
    /\ index = "target" => State \in {"none", "finalized"}
    /\ State = "finalized" => index = "target"
    /\ State = "applying" => Base /\ DOMAIN recoveries = TopPaths
    /\ index \in {"none", "gone"} => DOMAIN links = {} /\ DOMAIN recoveries = {}
    /\ Base /\ State \in {"none", "pending"} => DOMAIN links = {}

Unstarted == Base /\ State \in {"none", "pending"} => \A a \in journal : a.origin = None /\ ~ IsPromotion(a)

Phases == \A a \in Intents :
    /\ a.phase = "pre_base" /\ Base => State = "applying"
    /\ a.phase = "post_base" => ~ Base
    /\ IsPromotion(a) => Base

CreationOf(o, a) == a \in journal /\ a.order = o /\ a.op = "create"
Creations ==
    /\ Base /\ State \in {"none", "pending"} => \A p \in DOMAIN rows : rows[p].create = None
    /\ State = "applying" => \A p \in DOMAIN rows : rows[p].create # None => \E a : CreationOf(rows[p].create, a)
    /\ index = "none" => \A p \in DOMAIN rows : rows[p].temp = 0 => rows[p].create = None

RootIs(a, r) == r \in journal /\ r.order = a.origin /\ r.origin = None /\ IsPromotion(r)
Roots == State = "applying" => \A a \in journal : a.origin # None => IsPromotion(a) /\ \E r : RootIs(a, r)

CurrentIs(s, a) == a \in journal /\ a.order = links[s].current /\ IsPromotion(a)
RestoreIs(s, a) == a \in journal /\ a.order = links[s].rollback /\ a.op = "restore"
Away(s) == s \in DOMAIN links /\ \/ links[s].rollback = None
                                 \/ \E a : RestoreIs(s, a) /\ a.state = "intent"
Linked ==
    /\ Base => \A s \in DOMAIN links : Away(s) => \E a : CurrentIs(s, a)
    /\ State = "applying" => \A s \in DOMAIN links : links[s].rollback = None
    /\ Base /\ (\E s \in DOMAIN links : links[s].rollback = None) =>
           \A s \in DOMAIN links : links[s].rollback # None => \E a : RestoreIs(s, a)
    /\ State = "applying" /\ DOMAIN links # {} => \A p \in DOMAIN recoveries : recoveries[p].completed

Tables == Types /\ IntentsTogether /\ Indexed /\ Unstarted /\ Phases /\ Creations /\ Roots /\ Linked

(***************************************************************************)
(* The stages of a command.                                                *)
(***************************************************************************)
Turned == \E a \in Intents : Preserving(a)
BindStages  == {"recover", "rows", "directories", "files", "mtimes", "bindscan", "bindcommit"}
ApplyStages == {"prepare", "directories", "promote", "late1", "files", "mtimes", "late2", "verify", "scan",
                "late3", "recheck", "finalize", "late4"}
QuietStages == {"plan", "rows", "register", "verify", "scan", "recheck", "finalize", "clear", "unbind",
                "bindscan", "bindcommit"}
BackStages  == {"uninstall", "hidden", "root", "clear"}
Applying == run.stage \in ApplyStages /\ run.cmd # "bind"
TakingBack == run.stage \in BackStages \/ (run.stage = "temps" /\ run.at # 0)

RunTypes == /\ DOMAIN run = {"cmd", "stage", "at", "acted", "step"}
            /\ run.acted \in BOOLEAN /\ run.at \in Nat /\ (run.cmd = "none" => run = NoRun)
Stages ==
    /\ run.cmd = "bind" => index = "none" /\ run.stage \in BindStages
    /\ run.cmd = "sync" => index \in {"base", "target"}
    /\ run.stage = "recover" => run.cmd \in {"bind", "sync", "unbind"}
    /\ run.stage \in QuietStages => Intents = {}
    /\ Applying => Base /\ (State = "applying" \/ Turned)
    /\ run.stage = "rows" /\ run.cmd # "bind" => Base /\ State \in {"pending", "applying"}
    /\ run.stage = "register" => Base /\ State = "pending"
    /\ run.stage = "plan" => State = "none"
    /\ run.stage = "restore" => index # "target" /\ State \in {"pending", "rolling_back"}
    /\ TakingBack => index # "target" /\ State # "applying"
    /\ run.stage = "cleanup" => ~ Base
Places ==
    /\ run.stage = "prepare" => run.at # 0 /\ \A i \in 1 .. run.at - 1 :
           i <= Len(Tops) /\ Tops[i].path \in DOMAIN recoveries => recoveries[Tops[i].path].completed
    /\ Applying /\ run.stage # "prepare" => \A p \in DOMAIN recoveries : recoveries[p].completed
    /\ run.stage = "promote" => \A i \in 1 .. run.at - 1 : i <= Len(Promote) => Promote[i].source \in DOMAIN links
    /\ Applying /\ run.stage \notin {"prepare", "directories", "promote"} =>
           \A i \in 1 .. Len(Promote) : Promote[i].source \in DOMAIN links
    /\ run.stage = "restore" => run.at # 0 /\ \A i \in 1 .. run.at - 1 :
           i <= Len(Promote) /\ Promote[i].source \in DOMAIN links => links[Promote[i].source].rollback # None
    /\ TakingBack => \A s \in DOMAIN links : links[s].rollback # None
    /\ run.stage = "clear" => run.at = 1 \/ (run.at = 2 /\ journal = {})
    /\ run.stage = "directories" /\ run.at <= Len(Entries) => run.at # 0 /\ Entries[run.at].kind = "Directory"
    /\ run.stage = "directories" => run.at # 0
    /\ run.stage = "files" /\ run.at <= Len(Entries) => run.at # 0 /\ Entries[run.at].kind = "File"
    /\ run.stage = "files" => run.at # 0
    /\ run.stage = "mtimes" /\ run.at # 0 => run.at <= Len(Entries) /\ Entries[run.at].kind = "Directory"
    /\ run.stage \in {"promote", "late1", "late2", "late3", "late4", "uninstall", "hidden", "cleanup"} => run.at # 0
    /\ run.stage \in ApplyStages \cup {"register", "bindscan", "bindcommit"} => DOMAIN rows = DOMAIN TargetShape
Acting == run.acted =>
    /\ Intents # {}
    /\ \A a \in Intents : (\A c \in Intents \ {a} : Before(a, c)) /\ a.op = "create" =>
           Exists(a.path) /\ tree[a.path].kind = a.kind

(***************************************************************************)
(* The journal.                                                            *)
(***************************************************************************)
LEMMA NextOrderIs ==
    ASSUME JournalTypes
    PROVE  NextOrder \in Nat \ {0} /\ \A a \in journal : a.order < NextOrder
  <1> DEFINE O == {a.order : a \in journal}
  <1>1. \A a \in journal : a.order \in Nat \ {0}
    BY DEF JournalTypes, RowOK
  <1>2. IsFiniteSet(O)
    <2> DEFINE f == [a \in journal |-> a.order]
    <2>1. f \in Surjection(journal, O)
      BY DEF Surjection
    <2>2. IsFiniteSet(journal)
      BY DEF JournalTypes
    <2> HIDE DEF f, O
    <2> QED BY <2>1, <2>2, FS_Surjection
  <1>3. NextOrder = IF journal = {} THEN 1 ELSE 1 + Max(O)
    BY DEF NextOrder
  <1>4. CASE journal = {}
    BY <1>3, <1>4
  <1>5. CASE journal # {}
    <2>1. O # {} /\ O \subseteq Nat /\ \A a \in journal : a.order \in O
      BY <1>1, <1>5
    <2> HIDE DEF O
    <2>2. Max(O) \in O /\ \A x \in O : x <= Max(O)
      BY <1>2, <2>1, MaxOfNats
    <2> DEFINE m == Max(O)
    <2>3. m \in Nat /\ NextOrder = 1 + m /\ \A a \in journal : a.order <= m
      BY <1>3, <1>5, <2>1, <2>2
    <2> HIDE DEF m
    <2> QED BY <1>1, <2>3
  <1> QED BY <1>4, <1>5

LEMMA RowIs ==
    ASSUME JournalTypes, NEW a \in journal
    PROVE  Row(a.order) = a
  BY DEF JournalTypes, Row

(* The last row of a chain.                                                *)
LEMMA TailIs ==
    ASSUME JournalTypes, NEW r \in journal
    PROVE  /\ Chain(r.order) = {} => TailOf(r) = r
           /\ Chain(r.order) # {} => TailOf(r) \in Chain(r.order)
           /\ TailOf(r) \in journal
           /\ \A a \in Chain(r.order) : a.attempt <= TailOf(r).attempt
  <1> DEFINE C == Chain(r.order)
             N == {a.attempt : a \in C}
  <1>1. C \subseteq journal /\ IsFiniteSet(C) /\ \A a \in C : a.attempt \in Nat
    BY FS_Subset DEF Chain, JournalTypes, RowOK
  <1>2. TailOf(r) = IF C = {} THEN r ELSE CHOOSE a \in C : \A c \in C : c.attempt <= a.attempt
    BY DEF TailOf
  <1>3. CASE C = {}
    BY <1>2, <1>3
  <1>4. CASE C # {}
    <2> HIDE DEF C
    <2>1. IsFiniteSet(N)
      <3> DEFINE f == [a \in C |-> a.attempt]
      <3>1. f \in Surjection(C, N)
        BY DEF Surjection
      <3> HIDE DEF f, N
      <3> QED BY <1>1, <3>1, FS_Surjection
    <2>2. N # {} /\ N \subseteq Nat /\ \A a \in C : a.attempt \in N
      BY <1>1, <1>4
    <2>3. Max(N) \in N /\ \A x \in N : x <= Max(N)
      <3> HIDE DEF N
      <3> QED BY <2>1, <2>2, MaxOfNats
    <2>4. \E a \in C : \A c \in C : c.attempt <= a.attempt
      <3>1. PICK a \in C : a.attempt = Max(N)
        BY <2>3
      <3> QED BY <2>2, <2>3, <3>1
    <2>5. TailOf(r) \in C /\ \A c \in C : c.attempt <= TailOf(r).attempt
      BY <1>2, <1>4, <2>4
    <2> QED BY <1>1, <1>4, <2>5 DEF C
  <1> QED BY <1>3, <1>4

(***************************************************************************)
(* There is an intent that comes before all others.                        *)
(***************************************************************************)
LEMMA CurrentIntent ==
    ASSUME Tables, Intents # {}
    PROVE  /\ Current \in Intents /\ Current \in journal /\ Current.state = "intent"
           /\ \A c \in Intents \ {Current} : Before(Current, c)
  <1>1. Intents \subseteq journal /\ IsFiniteSet(Intents) /\ \A a \in Intents : a.state = "intent"
    BY FS_Subset DEF Intents, Tables, Types, JournalTypes
  <1>2. \A a \in Intents : /\ a.order \in Nat /\ a.attempt \in Nat /\ a.origin \in Nat
                           /\ (a.origin # None => IsPromotion(a) \/ Preserving(a))
    BY <1>1 DEF Tables, Types, JournalTypes, RowOK
  <1>3. \E a \in Intents : \A c \in Intents \ {a} : Before(a, c)
    <2>1. CASE \A a, c \in Intents : a = c
      BY <2>1
    <2>2. CASE \E a, c \in Intents : a # c /\ \A x \in {a, c} : x.op = "remove" /\ x.phase = "post_base"
      <3>1. PICK a, c \in Intents : a # c /\ \A x \in {a, c} : x.op = "remove" /\ x.phase = "post_base"
        BY <2>2
      <3>2. \A x \in Intents : x.op = "remove" /\ x.origin = None
        <4>1. \A x \in Intents : x.op = "remove"
          BY <3>1 DEF Tables, IntentsTogether, Together, IsPromotion
        <4>2. \A x \in Intents : Preserving(x) => x.op = "rename"
          BY <1>1 DEF Tables, Types, JournalTypes, RowOK, Plain
        <4> QED BY <1>2, <4>1, <4>2 DEF IsPromotion
      <3>3. \A x \in Intents : RootOf(x) = x
        BY <3>2 DEF RootOf
      <3>4. \A x, y \in Intents : x # y => x.order # y.order
        BY <1>1 DEF Tables, Types, JournalTypes
      <3> DEFINE N == {x.order : x \in Intents}
      <3>5. IsFiniteSet(N)
        <4> DEFINE f == [x \in Intents |-> x.order]
        <4>1. f \in Surjection(Intents, N)
          BY DEF Surjection
        <4> HIDE DEF f, N
        <4> QED BY <1>1, <4>1, FS_Surjection
      <3>6. N # {} /\ N \subseteq Nat /\ \A x \in Intents : x.order \in N
        BY <1>2
      <3>7. Min(N) \in N /\ \A x \in N : Min(N) <= x
        <4> HIDE DEF N
        <4> QED BY <3>5, <3>6, MinOfNats
      <3>8. PICK b \in Intents : b.order = Min(N)
        BY <3>7
      <3>9. ASSUME NEW x \in Intents \ {b} PROVE b.order < x.order
        <4>1. b.order <= x.order
          <5> HIDE DEF N
          <5> QED BY <3>6, <3>7, <3>8
        <4>2. b.order \in Nat /\ x.order \in Nat /\ b.order # x.order
          BY <1>2, <3>4
        <4> QED BY <4>1, <4>2
      <3>10. \A x \in Intents \ {b} : Before(b, x)
        BY <3>3, <3>9 DEF Before
      <3> QED BY <3>10
    <2>3. CASE \E a, c \in Intents : a # c /\ IsPromotion(a) /\ IsPromotion(c)
      <3>1. PICK a, c \in Intents : a # c /\ IsPromotion(a) /\ IsPromotion(c)
        BY <2>3
      <3>2. \A x \in Intents : IsPromotion(x) /\ RootOrder(x) = RootOrder(a)
        BY <3>1 DEF Tables, IntentsTogether, Together, IsPromotion
      <3>3. \A x, y \in Intents : x # y => x.attempt # y.attempt
        BY <3>2 DEF Tables, IntentsTogether, Together, IsPromotion
      <3>4. State = "applying"
        <4>1. Base /\ a.phase = "pre_base"
          BY <1>1, <3>1 DEF Tables, Phases, Types, JournalTypes, RowOK
        <4> QED BY <4>1 DEF Tables, Phases
      <3>5. \A x \in Intents : \E r \in journal : r.order = RootOrder(x) /\ IsPromotion(r) /\ RootOf(x) = r
        <4> TAKE x \in Intents
        <4>1. CASE x.origin = None
          BY <1>1, <3>2, <4>1 DEF RootOrder, RootOf
        <4>2. CASE x.origin # None
          <5>1. PICK r : RootIs(x, r)
            BY <1>1, <3>4, <4>2 DEF Tables, Roots
          <5>2. Row(x.origin) = r
            BY <5>1, RowIs DEF Tables, Types, RootIs
          <5> QED BY <4>2, <5>1, <5>2 DEF RootOrder, RootOf, RootIs
        <4> QED BY <4>1, <4>2
      <3>6. \A x, y \in Intents : RootOf(x) = RootOf(y) /\ IsPromotion(RootOf(x))
        <4>1. \A r, s \in journal : r.order = s.order => r = s
          BY DEF Tables, Types, JournalTypes
        <4> QED BY <3>2, <3>5, <4>1
      <3> DEFINE N == {x.attempt : x \in Intents}
      <3>7. IsFiniteSet(N)
        <4> DEFINE f == [x \in Intents |-> x.attempt]
        <4>1. f \in Surjection(Intents, N)
          BY DEF Surjection
        <4> HIDE DEF f, N
        <4> QED BY <1>1, <4>1, FS_Surjection
      <3>8. N # {} /\ N \subseteq Nat /\ \A x \in Intents : x.attempt \in N
        BY <1>2
      <3>9. Max(N) \in N /\ \A x \in N : x <= Max(N)
        <4> HIDE DEF N
        <4> QED BY <3>7, <3>8, MaxOfNats
      <3>10. PICK b \in Intents : b.attempt = Max(N)
        BY <3>9
      <3>11. ASSUME NEW x \in Intents \ {b} PROVE b.attempt > x.attempt
        <4>1. x.attempt <= b.attempt
          <5> HIDE DEF N
          <5> QED BY <3>8, <3>9, <3>10
        <4>2. b.attempt \in Nat /\ x.attempt \in Nat /\ b.attempt # x.attempt
          BY <1>2, <3>3
        <4> QED BY <4>1, <4>2
      <3>12. \A x \in Intents \ {b} : Before(b, x)
        BY <3>6, <3>11 DEF Before
      <3> QED BY <3>12
    <2> QED BY <2>1, <2>2, <2>3 DEF Tables, IntentsTogether, Together
  <1>4. Current \in Intents /\ \A c \in Intents \ {Current} : Before(Current, c)
    BY <1>3 DEF Current
  <1> QED BY <1>1, <1>4

(***************************************************************************)
(* Rows.                                                                   *)
(***************************************************************************)
RowIsOf(a, op, phase, p, q, kind, id, shape, stamp, origin, attempt, outcome) ==
    /\ DOMAIN a = RowFields /\ a.order = NextOrder /\ a.state = "intent"
    /\ a.op = op /\ a.phase = phase /\ a.path = p /\ a.target = q /\ a.kind = kind /\ a.id = id
    /\ a.shape = shape /\ a.stamp = stamp /\ a.origin = origin /\ a.attempt = attempt /\ a.outcome = outcome

RenameRow(phase, p, q, id) == [NewRow EXCEPT !.phase = phase, !.path = p, !.target = q, !.kind = tree[p].kind, !.id = id]
MtimeRow(phase, p, id, stamp) ==
    [NewRow EXCEPT !.op = "mtime", !.phase = phase, !.path = p, !.kind = tree[p].kind, !.id = id, !.stamp = stamp]
CreateRow(at, kind) == [NewRow EXCEPT !.op = "create", !.path = at, !.kind = kind]
PromotionRow(p, q) == [NewRow EXCEPT !.path = p, !.target = q, !.id = tree[p].id, !.shape = Shape(tree, p)]
ChainRow(p, q, id, origin, attempt) ==
    [NewRow EXCEPT !.path = p, !.target = q, !.id = id, !.shape = Shape(tree, p), !.origin = origin, !.attempt = attempt]
RestoreRow(p, q, id, stamp) ==
    [NewRow EXCEPT !.op = "restore", !.phase = "rollback", !.path = p, !.target = q, !.id = id, !.stamp = stamp]
AsideRow(a) ==
    [NewRow EXCEPT !.phase = "rollback", !.path = a.path, !.target = Recovered(a.path, 1),
                   !.kind = a.kind, !.origin = a.order, !.attempt = 1, !.outcome = "preserve_unknown"]

LEMMA NewRowIs == RowIsOf(NewRow, "rename", "pre_base", <<>>, <<>>, "File", None, NoShape, NoStamp, None, 0, "")
  <1>1. DOMAIN NewRow = RowFields
    BY DEF NewRow, RowFields
  <1> QED BY <1>1 DEF NewRow, RowIsOf, NoPath

LEMMA RowsAre ==
    /\ \A phase, p, q, id : RowIsOf(RenameRow(phase, p, q, id), "rename", phase, p, q, tree[p].kind, id, NoShape, NoStamp, None, 0, "")
    /\ \A phase, p, id, stamp : RowIsOf(MtimeRow(phase, p, id, stamp), "mtime", phase, p, <<>>, tree[p].kind, id, NoShape, stamp, None, 0, "")
    /\ \A at, kind : RowIsOf(CreateRow(at, kind), "create", "pre_base", at, <<>>, kind, None, NoShape, NoStamp, None, 0, "")
    /\ \A p, q : RowIsOf(PromotionRow(p, q), "rename", "pre_base", p, q, "File", tree[p].id, Shape(tree, p), NoStamp, None, 0, "")
    /\ \A p, q, id, origin, attempt : RowIsOf(ChainRow(p, q, id, origin, attempt), "rename", "pre_base", p, q, "File", id, Shape(tree, p),
                                              NoStamp, origin, attempt, "")
    /\ \A p, q, id, stamp : RowIsOf(RestoreRow(p, q, id, stamp), "restore", "rollback", p, q, "File", id, NoShape, stamp, None, 0, "")
    /\ \A a : RowIsOf(AsideRow(a), "rename", "rollback", a.path, Recovered(a.path, 1), a.kind, None, NoShape, NoStamp, a.order, 1,
                      "preserve_unknown")
    /\ \A phase, p, id : RowIsOf(Removal(phase, p, id), "remove", phase, p, <<>>, tree[p].kind, id,
                                 IF tree[p].kind = "File" THEN Shape(tree, p) ELSE NoShape, NoStamp, None, 0, "")
  <1>1. \A phase, p, q, id : RowIsOf(RenameRow(phase, p, q, id), "rename", phase, p, q, tree[p].kind, id, NoShape, NoStamp, None, 0, "")
    <2> TAKE phase, p, q, id
    <2>1. DOMAIN RenameRow(phase, p, q, id) = RowFields
      BY DEF RenameRow, NewRow, RowFields
    <2> QED BY <2>1 DEF RenameRow, NewRow, RowIsOf, NoPath
  <1>2. \A phase, p, id, stamp : RowIsOf(MtimeRow(phase, p, id, stamp), "mtime", phase, p, <<>>, tree[p].kind, id, NoShape, stamp, None, 0, "")
    <2> TAKE phase, p, id, stamp
    <2>1. DOMAIN MtimeRow(phase, p, id, stamp) = RowFields
      BY DEF MtimeRow, NewRow, RowFields
    <2> QED BY <2>1 DEF MtimeRow, NewRow, RowIsOf, NoPath
  <1>3. \A at, kind : RowIsOf(CreateRow(at, kind), "create", "pre_base", at, <<>>, kind, None, NoShape, NoStamp, None, 0, "")
    <2> TAKE at, kind
    <2>1. DOMAIN CreateRow(at, kind) = RowFields
      BY DEF CreateRow, NewRow, RowFields
    <2> QED BY <2>1 DEF CreateRow, NewRow, RowIsOf, NoPath
  <1>4. \A p, q : RowIsOf(PromotionRow(p, q), "rename", "pre_base", p, q, "File", tree[p].id, Shape(tree, p), NoStamp, None, 0, "")
    <2> TAKE p, q
    <2>1. DOMAIN PromotionRow(p, q) = RowFields
      BY DEF PromotionRow, NewRow, RowFields
    <2> QED BY <2>1 DEF PromotionRow, NewRow, RowIsOf, NoPath
  <1>5. \A p, q, id, origin, attempt : RowIsOf(ChainRow(p, q, id, origin, attempt), "rename", "pre_base", p, q, "File", id, Shape(tree, p), NoStamp, origin, attempt, "")
    <2> TAKE p, q, id, origin, attempt
    <2>1. DOMAIN ChainRow(p, q, id, origin, attempt) = RowFields
      BY DEF ChainRow, NewRow, RowFields
    <2> QED BY <2>1 DEF ChainRow, NewRow, RowIsOf, NoPath
  <1>6. \A p, q, id, stamp : RowIsOf(RestoreRow(p, q, id, stamp), "restore", "rollback", p, q, "File", id, NoShape, stamp, None, 0, "")
    <2> TAKE p, q, id, stamp
    <2>1. DOMAIN RestoreRow(p, q, id, stamp) = RowFields
      BY DEF RestoreRow, NewRow, RowFields
    <2> QED BY <2>1 DEF RestoreRow, NewRow, RowIsOf, NoPath
  <1>7. \A a : RowIsOf(AsideRow(a), "rename", "rollback", a.path, Recovered(a.path, 1), a.kind, None, NoShape, NoStamp, a.order, 1, "preserve_unknown")
    <2> TAKE a
    <2>1. DOMAIN AsideRow(a) = RowFields
      BY DEF AsideRow, NewRow, RowFields
    <2> QED BY <2>1 DEF AsideRow, NewRow, RowIsOf, NoPath
  <1>8. \A phase, p, id : RowIsOf(Removal(phase, p, id), "remove", phase, p, <<>>, tree[p].kind, id, IF tree[p].kind = "File" THEN Shape(tree, p) ELSE NoShape, NoStamp, None, 0, "")
    <2> TAKE phase, p, id
    <2>1. DOMAIN Removal(phase, p, id) = RowFields
      BY DEF Removal, NewRow, RowFields
    <2> QED BY <2>1 DEF Removal, NewRow, RowIsOf, NoPath
  <1> QED BY <1>1, <1>2, <1>3, <1>4, <1>5, <1>6, <1>7, <1>8

(* What exists has an identity and a kind.                                 *)
LEMMA ObjectIs ==
    ASSUME Worlds, NEW p \in DOMAIN tree
    PROVE  /\ p \in Path /\ tree[p].kind \in Kinds /\ tree[p].id \in 1 .. lastId /\ tree[p].id \in 0 .. lastId
           /\ tree[p].id # None /\ lastId \in Nat
           /\ tree[p].kind = "File" => p # <<>>
           /\ Shape(tree, p) # NoShape
           /\ <<>> \in DOMAIN Shape(tree, p)
           /\ Shape(tree, p)[<<>>] = [kind |-> tree[p].kind, data |-> tree[p].data]
  <1>1. p \in Path /\ tree[p].kind \in Kinds /\ tree[p].id \in 1 .. lastId /\ lastId \in Nat
    BY DEF Worlds, WellFormed, Objects, IsObject
  <1>2. tree[p].id \in 0 .. lastId /\ tree[p].id # None
    BY <1>1 DEF None
  <1>3. tree[p].kind = "File" => p # <<>>
    BY DEF Worlds, WellFormed, IsDir
  <1>4. p \in Under(tree, p) /\ Rest(p, p) = <<>> /\ p \o <<>> = p
    <2>1. IsPrefix(p, p)
      BY <1>1, PrefixOrder
    <2>2. Rest(p, p) \in Path /\ Len(Rest(p, p)) = Len(p) - Len(p) /\ p \o Rest(p, p) = p
      BY <1>1, <2>1, RestIs
    <2>3. Len(p) \in Nat
      BY <1>1 DEF Path
    <2>4. Rest(p, p) = <<>>
      BY <2>2, <2>3, EmptySeq DEF Path
    <2> QED BY <2>1, <2>2, <2>4 DEF Under
  <1>5. <<>> \in {Rest(p, q) : q \in Under(tree, p)}
    BY <1>4
  <1>6. <<>> \in DOMAIN Shape(tree, p) /\ Shape(tree, p)[<<>>] = [kind |-> tree[p].kind, data |-> tree[p].data]
    BY <1>4, <1>5 DEF Shape
  <1>7. Shape(tree, p) # NoShape
    <2>1. <<>> \notin DOMAIN NoShape
      <3>1. DOMAIN NoShape = {}
        BY DEF NoShape
      <3> QED BY <3>1
    <2> QED BY <1>6, <2>1
  <1> QED BY <1>1, <1>2, <1>3, <1>6, <1>7

(***************************************************************************)
(* Transactions.                                                           *)
(***************************************************************************)
DbFields == {"journal", "pending", "rows", "recoveries", "links", "index"}
DbIs(j, p, r, c, l, x) == /\ DOMAIN db' = DbFields
                          /\ journal' = j /\ pending' = p /\ rows' = r /\ recoveries' = c /\ links' = l /\ index' = x

LEMMA Transactions ==
    ASSUME Types
    PROVE  /\ db' = db => DbIs(journal, pending, rows, recoveries, links, index)
           /\ \A j : db' = [db EXCEPT !.journal = j] => DbIs(j, pending, rows, recoveries, links, index)
           /\ \A r : db' = [db EXCEPT !.rows = r] => DbIs(journal, pending, r, recoveries, links, index)
           /\ \A c : db' = [db EXCEPT !.recoveries = c] => DbIs(journal, pending, rows, c, links, index)
           /\ \A p : db' = [db EXCEPT !.pending = p] => DbIs(journal, p, rows, recoveries, links, index)
           /\ \A j, r : db' = [db EXCEPT !.journal = j, !.rows = r] => DbIs(j, pending, r, recoveries, links, index)
           /\ \A j, l : db' = [db EXCEPT !.journal = j, !.links = l] => DbIs(j, pending, rows, recoveries, l, index)
           /\ \A j, p : db' = [db EXCEPT !.journal = j, !.pending = p] => DbIs(j, p, rows, recoveries, links, index)
           /\ \A r, p : db' = [db EXCEPT !.rows = r, !.pending = p] => DbIs(journal, p, r, recoveries, links, index)
           /\ \A c, p : db' = [db EXCEPT !.recoveries = c, !.pending = p] => DbIs(journal, p, rows, c, links, index)
           /\ \A j, c, l : db' = [db EXCEPT !.recoveries = c, !.journal = j, !.links = l] => DbIs(j, pending, rows, c, l, index)
  <1>1. DOMAIN db = DbFields
    BY DEF Types, DbFields
  <1>2. db' = db => DbIs(journal, pending, rows, recoveries, links, index)
    BY <1>1 DEF DbIs, journal, pending, rows, recoveries, links, index
  <1>3. \A j : db' = [db EXCEPT !.journal = j] => DbIs(j, pending, rows, recoveries, links, index)
    BY <1>1 DEF DbIs, DbFields, journal, pending, rows, recoveries, links, index
  <1>4. \A r : db' = [db EXCEPT !.rows = r] => DbIs(journal, pending, r, recoveries, links, index)
    BY <1>1 DEF DbIs, DbFields, journal, pending, rows, recoveries, links, index
  <1>5. \A c : db' = [db EXCEPT !.recoveries = c] => DbIs(journal, pending, rows, c, links, index)
    BY <1>1 DEF DbIs, DbFields, journal, pending, rows, recoveries, links, index
  <1>6. \A p : db' = [db EXCEPT !.pending = p] => DbIs(journal, p, rows, recoveries, links, index)
    BY <1>1 DEF DbIs, DbFields, journal, pending, rows, recoveries, links, index
  <1>7. \A j, r : db' = [db EXCEPT !.journal = j, !.rows = r] => DbIs(j, pending, r, recoveries, links, index)
    BY <1>1 DEF DbIs, DbFields, journal, pending, rows, recoveries, links, index
  <1>8. \A j, l : db' = [db EXCEPT !.journal = j, !.links = l] => DbIs(j, pending, rows, recoveries, l, index)
    BY <1>1 DEF DbIs, DbFields, journal, pending, rows, recoveries, links, index
  <1>9. \A j, p : db' = [db EXCEPT !.journal = j, !.pending = p] => DbIs(j, p, rows, recoveries, links, index)
    BY <1>1 DEF DbIs, DbFields, journal, pending, rows, recoveries, links, index
  <1>10. \A r, p : db' = [db EXCEPT !.rows = r, !.pending = p] => DbIs(journal, p, r, recoveries, links, index)
    BY <1>1 DEF DbIs, DbFields, journal, pending, rows, recoveries, links, index
  <1>11. \A c, p : db' = [db EXCEPT !.recoveries = c, !.pending = p] => DbIs(journal, p, rows, c, links, index)
    BY <1>1 DEF DbIs, DbFields, journal, pending, rows, recoveries, links, index
  <1>12. \A j, c, l : db' = [db EXCEPT !.recoveries = c, !.journal = j, !.links = l] => DbIs(j, pending, rows, c, l, index)
    BY <1>1 DEF DbIs, DbFields, journal, pending, rows, recoveries, links, index
  <1> QED BY <1>2, <1>3, <1>4, <1>5, <1>6, <1>7, <1>8, <1>9, <1>10, <1>11, <1>12

LEMMA Grown ==
    ASSUME Types, scenario' = scenario, lastId' >= lastId, lastId \in Nat, lastId' \in Nat
    PROVE  /\ \A a : RowOK(a) => RowOK(a)'
           /\ \A r : PathRowOK(r) => PathRowOK(r)'
           /\ TopPaths' = TopPaths /\ Sources' = Sources /\ DOMAIN TargetShape' = DOMAIN TargetShape
           /\ Tops' = Tops /\ Entries' = Entries /\ Promote' = Promote /\ TargetShape' = TargetShape /\ BaseShape' = BaseShape
  <1>0. Tops' = Tops /\ Promote' = Promote /\ TargetShape' = TargetShape /\ Entries' = Entries /\ BaseShape' = BaseShape
    BY DEF Tops, Promote, TargetShape, Entries, BaseShape
  <1>1. TopPaths' = TopPaths /\ Sources' = Sources
    BY <1>0 DEF TopPaths, Sources
  <1>2. \A i \in 0 .. lastId : i \in 0 .. lastId'
    OBVIOUS
  <1>3. \A a : RowOK(a) => RowOK(a)'
    BY <1>2 DEF RowOK
  <1>4. \A r : PathRowOK(r) => PathRowOK(r)'
    BY <1>2 DEF PathRowOK
  <1> QED BY <1>0, <1>1, <1>3, <1>4

(***************************************************************************)
(* A new intent.                                                           *)
(***************************************************************************)
Admitted(row) ==
    /\ RowOK(row) /\ row.order = NextOrder /\ row.state = "intent"
    /\ row.phase = "pre_base" /\ Base => State = "applying"
    /\ row.phase = "post_base" => ~ Base
    /\ IsPromotion(row) => Base
    /\ row.origin # None /\ State = "applying" => IsPromotion(row) /\ \E r : RootIs(row, r)
    /\ Base /\ State \in {"none", "pending"} => row.origin = None

LEMMA Admit ==
    ASSUME Tables, NEW row, Admitted(row), \A x \in Intents : Together(x, row) /\ Together(row, x),
           scenario' = scenario, lastId' = lastId, lastId \in Nat,
           journal' = journal \cup {row}, pending' = pending, index' = index
    PROVE  /\ row \notin journal /\ Intents' = Intents \cup {row}
           /\ JournalTypes' /\ PendingTypes' /\ IntentsTogether' /\ Unstarted' /\ Phases' /\ Roots'
  <1> USE DEF Tables
  <1>1. \A a \in journal : a.order # row.order
    BY NextOrderIs DEF Types, Admitted
  <1>2. Intents' = Intents \cup {row}
    BY DEF Admitted, Intents
  <1>3. JournalTypes'
    <2>1. IsFiniteSet(journal')
      BY FS_AddElement DEF Types, JournalTypes
    <2>2. \A a \in journal' : RowOK(a)'
      BY Grown DEF Types, JournalTypes, Admitted
    <2>3. \A a, c \in journal' : a.order = c.order => a = c
      BY <1>1 DEF Types, JournalTypes
    <2> QED BY <2>1, <2>2, <2>3 DEF JournalTypes
  <1>4. IntentsTogether'
    BY <1>2 DEF Tables, IntentsTogether
  <1>5. Unstarted'
    BY DEF Unstarted, Base, State, Admitted, RowOK
  <1>6. Phases'
    BY <1>2 DEF Tables, Phases, Base, State, Admitted
  <1>7. Roots'
    BY DEF Roots, RootIs, State, Admitted
  <1>8. PendingTypes'
    BY DEF PendingTypes, Types, State
  <1> QED BY <1>1, <1>2, <1>3, <1>4, <1>5, <1>6, <1>7, <1>8

LEMMA AdmitOnly ==
    ASSUME Tables, NEW row, Admitted(row), \A x \in Intents : Together(x, row) /\ Together(row, x),
           scenario' = scenario, lastId' = lastId, lastId \in Nat,
           DbIs(journal \cup {row}, pending, rows, recoveries, links, index), row.op # "restore"
    PROVE  Tables' /\ Intents' = Intents \cup {row}
  <1>1. /\ row \notin journal /\ Intents' = Intents \cup {row}
        /\ JournalTypes' /\ PendingTypes' /\ IntentsTogether' /\ Unstarted' /\ Phases' /\ Roots'
    BY Admit DEF DbIs
  <1>2. Types'
    <2>1. RowsTypes' /\ RecoveriesTypes' /\ LinksTypes'
      BY Grown DEF Tables, Types, DbIs, RowsTypes, RecoveriesTypes, LinksTypes, RecoveryOK, LinkOK
    <2> QED BY <1>1, <2>1 DEF Types, DbIs, DbFields
  <1>3. Indexed'
    BY Grown DEF Tables, Indexed, DbIs, Base, State
  <1>4. Creations'
    BY DEF Tables, Creations, CreationOf, DbIs, Base, State
  <1>5. Linked'
    <2>1. \A s, a : CurrentIs(s, a) => CurrentIs(s, a)'
      BY DEF CurrentIs, DbIs
    <2>2. \A s, a : RestoreIs(s, a)' <=> RestoreIs(s, a)
      BY DEF RestoreIs, DbIs
    <2>3. \A s : Away(s)' <=> Away(s)
      BY <2>2 DEF Away, DbIs
    <2> QED BY <2>1, <2>2, <2>3 DEF Tables, Linked, DbIs, Base, State
  <1> QED BY <1>1, <1>2, <1>3, <1>4, <1>5 DEF Tables

LEMMA RenameRowOK ==
    ASSUME Worlds, JournalTypes, NEW phase \in {"pre_base", "rollback", "post_base"}, NEW p \in Path, p # <<>>,
           NEW q \in Path, q # <<>>, Parent(q) = Parent(p), ~ IsTemp(q), NEW id, HasId(tree, p, id)
    PROVE  RowOK(RenameRow(phase, p, q, id))
  <1> DEFINE a == RenameRow(phase, p, q, id)
  <1>1. RowIsOf(a, "rename", phase, p, q, tree[p].kind, id, NoShape, NoStamp, None, 0, "")
    BY RowsAre
  <1>2. NextOrder \in Nat \ {0} /\ tree[p].kind \in Kinds /\ id \in 0 .. lastId
    BY NextOrderIs, ObjectIs DEF HasId
  <1> HIDE DEF a
  <1>3. RowOK(a)
    <2>1. /\ DOMAIN a = RowFields /\ a.order = NextOrder /\ a.state = "intent" /\ a.op = "rename" /\ a.phase = phase /\ a.path = p /\ a.target = q /\ a.kind = tree[p].kind /\ a.id = id
          /\ a.shape = NoShape /\ a.origin = None /\ a.attempt = 0 /\ a.outcome = ""
      BY <1>1 DEF RowIsOf
    <2>2. Plain(a) /\ ~ IsPromotion(a) /\ ~ Preserving(a)
      BY <2>1 DEF Plain, IsPromotion, Preserving, NoShape
    <2>3. a.path \in Path /\ a.target \in Path /\ a.kind \in Kinds
      BY <1>1, <1>2, <2>1
    <2>4. a.order \in Nat \ {0}
      BY <1>1, <1>2, <2>1
    <2>5. a.origin \in Nat /\ a.attempt \in Nat
      <3>1. None \in Nat /\ 0 \in Nat /\ 1 \in Nat
        BY DEF None
      <3> QED BY <1>1, <1>2, <2>1, <3>1
    <2>6. lastId \in Nat
      BY DEF Worlds
    <2>7. a.id \in 0 .. lastId
      <3>1. 0 \in 0 .. lastId
        BY <2>6
      <3> QED BY <1>1, <1>2, <2>1, <3>1 DEF None
    <2> QED BY <1>1, <1>2, <2>1, <2>2, <2>3, <2>4, <2>5, <2>7 DEF RowOK, None
  <1> QED BY <1>3 DEF a

LEMMA RemovalRowOK ==
    ASSUME Worlds, JournalTypes, NEW phase \in {"pre_base", "rollback", "post_base"}, NEW p \in Path, p # <<>>,
           NEW id, HasId(tree, p, id)
    PROVE  RowOK(Removal(phase, p, id))
  <1> DEFINE a == Removal(phase, p, id)
  <1>1. RowIsOf(a, "remove", phase, p, <<>>, tree[p].kind, id,
                IF tree[p].kind = "File" THEN Shape(tree, p) ELSE NoShape, NoStamp, None, 0, "")
    BY RowsAre
  <1>2. NextOrder \in Nat \ {0} /\ tree[p].kind \in Kinds /\ id \in 0 .. lastId /\ <<>> \in Path
    BY NextOrderIs, ObjectIs, RootIsPath DEF HasId
  <1> HIDE DEF a
  <1>3. RowOK(a)
    <2>1. /\ DOMAIN a = RowFields /\ a.order = NextOrder /\ a.state = "intent" /\ a.op = "remove" /\ a.phase = phase /\ a.path = p /\ a.target = <<>> /\ a.kind = tree[p].kind /\ a.id = id
          /\ a.origin = None /\ a.attempt = 0 /\ a.outcome = ""
      BY <1>1 DEF RowIsOf
    <2>2. ~ Plain(a) /\ ~ IsPromotion(a) /\ ~ Preserving(a)
      BY <2>1 DEF Plain, IsPromotion, Preserving, NoShape
    <2>3. a.path \in Path /\ a.target \in Path /\ a.kind \in Kinds
      BY <1>1, <1>2, <2>1
    <2>4. a.order \in Nat \ {0}
      BY <1>1, <1>2, <2>1
    <2>5. a.origin \in Nat /\ a.attempt \in Nat
      <3>1. None \in Nat /\ 0 \in Nat /\ 1 \in Nat
        BY DEF None
      <3> QED BY <1>1, <1>2, <2>1, <3>1
    <2>6. lastId \in Nat
      BY DEF Worlds
    <2>7. a.id \in 0 .. lastId
      <3>1. 0 \in 0 .. lastId
        BY <2>6
      <3> QED BY <1>1, <1>2, <2>1, <3>1 DEF None
    <2> QED BY <1>1, <1>2, <2>1, <2>2, <2>3, <2>4, <2>5, <2>7 DEF RowOK, None
  <1> QED BY <1>3 DEF a

LEMMA MtimeRowOK ==
    ASSUME Worlds, JournalTypes, NEW phase \in {"pre_base", "rollback", "post_base"}, NEW p, NEW stamp,
           NEW id, HasId(tree, p, id)
    PROVE  RowOK(MtimeRow(phase, p, id, stamp))
  <1> DEFINE a == MtimeRow(phase, p, id, stamp)
  <1>1. RowIsOf(a, "mtime", phase, p, <<>>, tree[p].kind, id, NoShape, stamp, None, 0, "")
    BY RowsAre
  <1>2. NextOrder \in Nat \ {0} /\ tree[p].kind \in Kinds /\ id \in 0 .. lastId /\ <<>> \in Path /\ p \in Path
    BY NextOrderIs, ObjectIs, RootIsPath DEF HasId
  <1> HIDE DEF a
  <1>3. RowOK(a)
    <2>1. /\ DOMAIN a = RowFields /\ a.order = NextOrder /\ a.state = "intent" /\ a.op = "mtime" /\ a.phase = phase /\ a.path = p /\ a.target = <<>> /\ a.kind = tree[p].kind /\ a.id = id
          /\ a.origin = None /\ a.attempt = 0 /\ a.outcome = ""
      BY <1>1 DEF RowIsOf
    <2>2. ~ Plain(a) /\ ~ IsPromotion(a) /\ ~ Preserving(a)
      BY <2>1 DEF Plain, IsPromotion, Preserving, NoShape
    <2>3. a.path \in Path /\ a.target \in Path /\ a.kind \in Kinds
      BY <1>1, <1>2, <2>1
    <2>4. a.order \in Nat \ {0}
      BY <1>1, <1>2, <2>1
    <2>5. a.origin \in Nat /\ a.attempt \in Nat
      <3>1. None \in Nat /\ 0 \in Nat /\ 1 \in Nat
        BY DEF None
      <3> QED BY <1>1, <1>2, <2>1, <3>1
    <2>6. lastId \in Nat
      BY DEF Worlds
    <2>7. a.id \in 0 .. lastId
      <3>1. 0 \in 0 .. lastId
        BY <2>6
      <3> QED BY <1>1, <1>2, <2>1, <3>1 DEF None
    <2> QED BY <1>1, <1>2, <2>1, <2>2, <2>3, <2>4, <2>5, <2>7 DEF RowOK, None
  <1> QED BY <1>3 DEF a

LEMMA CreateRowOK ==
    ASSUME Worlds, JournalTypes, NEW p \in Path, IsTemp(p), NEW kind \in Kinds
    PROVE  RowOK(CreateRow(p, kind))
  <1> DEFINE a == CreateRow(p, kind)
  <1>1. RowIsOf(a, "create", "pre_base", p, <<>>, kind, None, NoShape, NoStamp, None, 0, "")
    BY RowsAre
  <1>2. NextOrder \in Nat \ {0} /\ lastId \in Nat /\ <<>> \in Path
    BY NextOrderIs, RootIsPath DEF Worlds
  <1> HIDE DEF a
  <1>3. RowOK(a)
    <2>1. /\ DOMAIN a = RowFields /\ a.order = NextOrder /\ a.state = "intent" /\ a.op = "create" /\ a.phase = "pre_base" /\ a.path = p /\ a.target = <<>> /\ a.kind = kind /\ a.id = None
          /\ a.origin = None /\ a.attempt = 0 /\ a.outcome = ""
      BY <1>1 DEF RowIsOf
    <2>2. ~ Plain(a) /\ ~ IsPromotion(a) /\ ~ Preserving(a)
      BY <2>1 DEF Plain, IsPromotion, Preserving, NoShape
    <2>3. a.path \in Path /\ a.target \in Path /\ a.kind \in Kinds
      BY <1>1, <1>2, <2>1
    <2>4. a.order \in Nat \ {0}
      BY <1>1, <1>2, <2>1
    <2>5. a.origin \in Nat /\ a.attempt \in Nat
      <3>1. None \in Nat /\ 0 \in Nat /\ 1 \in Nat
        BY DEF None
      <3> QED BY <1>1, <1>2, <2>1, <3>1
    <2>6. lastId \in Nat
      BY DEF Worlds
    <2>7. a.id \in 0 .. lastId
      <3>1. 0 \in 0 .. lastId
        BY <2>6
      <3> QED BY <1>1, <1>2, <2>1, <3>1 DEF None
    <2> QED BY <1>1, <1>2, <2>1, <2>2, <2>3, <2>4, <2>5, <2>7 DEF RowOK, None
  <1> QED BY <1>3 DEF a

LEMMA PromotionRowOK ==
    ASSUME Worlds, JournalTypes, NEW p, Exists(p), NEW q, VisiblePath(q)
    PROVE  RowOK(PromotionRow(p, q)) /\ IsPromotion(PromotionRow(p, q))
  <1> DEFINE a == PromotionRow(p, q)
  <1>1. RowIsOf(a, "rename", "pre_base", p, q, "File", tree[p].id, Shape(tree, p), NoStamp, None, 0, "")
    BY RowsAre
  <1>2. NextOrder \in Nat \ {0} /\ tree[p].id \in 0 .. lastId /\ tree[p].id # None /\ p \in Path /\ q \in Path
        /\ Shape(tree, p) # NoShape /\ "File" \in Kinds
    BY NextOrderIs, ObjectIs, VisibleIs DEF Exists, Kinds
  <1> HIDE DEF a
  <1>3. RowOK(a) /\ IsPromotion(a)
    <2>1. /\ DOMAIN a = RowFields /\ a.order = NextOrder /\ a.state = "intent" /\ a.op = "rename" /\ a.phase = "pre_base" /\ a.path = p /\ a.target = q /\ a.kind = "File" /\ a.id = tree[p].id
          /\ a.shape = Shape(tree, p) /\ a.origin = None /\ a.attempt = 0 /\ a.outcome = ""
      BY <1>1 DEF RowIsOf
    <2>2. ~ Plain(a) /\ IsPromotion(a) /\ ~ Preserving(a)
      BY <2>1, <1>2 DEF Plain, IsPromotion, Preserving, NoShape
    <2>3. a.path \in Path /\ a.target \in Path /\ a.kind \in Kinds
      BY <1>1, <1>2, <2>1
    <2>4. a.order \in Nat \ {0}
      BY <1>1, <1>2, <2>1
    <2>5. a.origin \in Nat /\ a.attempt \in Nat
      <3>1. None \in Nat /\ 0 \in Nat /\ 1 \in Nat
        BY DEF None
      <3> QED BY <1>1, <1>2, <2>1, <3>1
    <2>6. lastId \in Nat
      BY DEF Worlds
    <2>7. a.id \in 0 .. lastId
      <3>1. 0 \in 0 .. lastId
        BY <2>6
      <3> QED BY <1>1, <1>2, <2>1, <3>1 DEF None
    <2> QED BY <1>1, <1>2, <2>1, <2>2, <2>3, <2>4, <2>5, <2>7 DEF RowOK, None
  <1> QED BY <1>3 DEF a

LEMMA ChainRowOK ==
    ASSUME Worlds, JournalTypes, NEW p, NEW q, VisiblePath(q), NEW id, HasId(tree, p, id),
           NEW origin \in Nat \ {0}, NEW attempt \in Nat
    PROVE  RowOK(ChainRow(p, q, id, origin, attempt)) /\ IsPromotion(ChainRow(p, q, id, origin, attempt))
  <1> DEFINE a == ChainRow(p, q, id, origin, attempt)
  <1>1. RowIsOf(a, "rename", "pre_base", p, q, "File", id, Shape(tree, p), NoStamp, origin, attempt, "")
    BY RowsAre
  <1>2. NextOrder \in Nat \ {0} /\ id \in 0 .. lastId /\ id # None /\ p \in Path /\ q \in Path
        /\ Shape(tree, p) # NoShape /\ "File" \in Kinds
    BY NextOrderIs, ObjectIs, VisibleIs DEF HasId, Kinds
  <1> HIDE DEF a
  <1>3. RowOK(a) /\ IsPromotion(a)
    <2>1. /\ DOMAIN a = RowFields /\ a.order = NextOrder /\ a.state = "intent" /\ a.op = "rename" /\ a.phase = "pre_base" /\ a.path = p /\ a.target = q /\ a.kind = "File" /\ a.id = id
          /\ a.shape = Shape(tree, p) /\ a.origin = origin /\ a.attempt = attempt /\ a.outcome = ""
      BY <1>1 DEF RowIsOf
    <2>2. ~ Plain(a) /\ IsPromotion(a) /\ ~ Preserving(a)
      BY <2>1, <1>2 DEF Plain, IsPromotion, Preserving, NoShape
    <2>3. a.path \in Path /\ a.target \in Path /\ a.kind \in Kinds
      BY <1>1, <1>2, <2>1
    <2>4. a.order \in Nat \ {0}
      BY <1>1, <1>2, <2>1
    <2>5. a.origin \in Nat /\ a.attempt \in Nat
      <3>1. None \in Nat /\ 0 \in Nat /\ 1 \in Nat
        BY DEF None
      <3> QED BY <1>1, <1>2, <2>1, <3>1
    <2>6. lastId \in Nat
      BY DEF Worlds
    <2>7. a.id \in 0 .. lastId
      <3>1. 0 \in 0 .. lastId
        BY <2>6
      <3> QED BY <1>1, <1>2, <2>1, <3>1 DEF None
    <2> QED BY <1>1, <1>2, <2>1, <2>2, <2>3, <2>4, <2>5, <2>7 DEF RowOK, None
  <1> QED BY <1>3 DEF a

LEMMA RestoreRowOK ==
    ASSUME Worlds, JournalTypes, NEW p, NEW q \in Path, NEW id, HasId(tree, p, id), NEW stamp
    PROVE  RowOK(RestoreRow(p, q, id, stamp))
  <1> DEFINE a == RestoreRow(p, q, id, stamp)
  <1>1. RowIsOf(a, "restore", "rollback", p, q, "File", id, NoShape, stamp, None, 0, "")
    BY RowsAre
  <1>2. NextOrder \in Nat \ {0} /\ id \in 0 .. lastId /\ id # None /\ p \in Path /\ "File" \in Kinds
    BY NextOrderIs, ObjectIs DEF HasId, Kinds
  <1> HIDE DEF a
  <1>3. RowOK(a)
    <2>1. /\ DOMAIN a = RowFields /\ a.order = NextOrder /\ a.state = "intent" /\ a.op = "restore" /\ a.phase = "rollback" /\ a.path = p /\ a.target = q /\ a.kind = "File" /\ a.id = id
          /\ a.origin = None /\ a.attempt = 0 /\ a.outcome = ""
      BY <1>1 DEF RowIsOf
    <2>2. ~ Plain(a) /\ ~ IsPromotion(a) /\ ~ Preserving(a)
      BY <2>1 DEF Plain, IsPromotion, Preserving, NoShape
    <2>3. a.path \in Path /\ a.target \in Path /\ a.kind \in Kinds
      BY <1>1, <1>2, <2>1
    <2>4. a.order \in Nat \ {0}
      BY <1>1, <1>2, <2>1
    <2>5. a.origin \in Nat /\ a.attempt \in Nat
      <3>1. None \in Nat /\ 0 \in Nat /\ 1 \in Nat
        BY DEF None
      <3> QED BY <1>1, <1>2, <2>1, <3>1
    <2>6. lastId \in Nat
      BY DEF Worlds
    <2>7. a.id \in 0 .. lastId
      <3>1. 0 \in 0 .. lastId
        BY <2>6
      <3> QED BY <1>1, <1>2, <2>1, <3>1 DEF None
    <2> QED BY <1>1, <1>2, <2>1, <2>2, <2>3, <2>4, <2>5, <2>7 DEF RowOK, None
  <1> QED BY <1>3 DEF a

LEMMA AsideRowOK ==
    ASSUME Worlds, JournalTypes, NEW c \in journal, c.op = "create"
    PROVE  RowOK(AsideRow(c)) /\ Plain(AsideRow(c)) /\ Preserving(AsideRow(c))
  <1> DEFINE a == AsideRow(c)
             q == Recovered(c.path, 1)
  <1>0. c.path \in Path /\ IsTemp(c.path) /\ c.kind \in Kinds /\ c.order \in Nat \ {0}
    BY DEF JournalTypes, RowOK
  <1>1. RowIsOf(a, "rename", "rollback", c.path, q, c.kind, None, NoShape, NoStamp, c.order, 1, "preserve_unknown")
    BY RowsAre
  <1>2. q \in Path /\ q # <<>> /\ Parent(q) = Parent(c.path) /\ Last(q)[1] = "recovered"
    BY <1>0, RenamedIs DEF Recovered, IsTemp, VisibleForms
  <1>3. NextOrder \in Nat \ {0} /\ lastId \in Nat
    BY NextOrderIs DEF Worlds
  <1> HIDE DEF a, q
  <1>4. RowOK(a) /\ Plain(a) /\ Preserving(a)
    <2>1. /\ DOMAIN a = RowFields /\ a.order = NextOrder /\ a.state = "intent" /\ a.op = "rename" /\ a.phase = "rollback" /\ a.path = c.path /\ a.target = q /\ a.kind = c.kind /\ a.id = None
          /\ a.shape = NoShape /\ a.origin = c.order /\ a.attempt = 1 /\ a.outcome = "preserve_unknown"
      BY <1>1 DEF RowIsOf
    <2>2. Plain(a) /\ ~ IsPromotion(a) /\ Preserving(a)
      BY <2>1 DEF Plain, IsPromotion, Preserving, NoShape
    <2>3. a.path \in Path /\ a.target \in Path /\ a.kind \in Kinds /\ a.path # <<>> /\ ~ IsTemp(a.target)
      BY <1>0, <1>1, <1>2, <1>3, <2>1 DEF IsTemp
    <2>4. a.order \in Nat \ {0}
      BY <1>0, <1>1, <1>2, <1>3, <2>1
    <2>5. a.origin \in Nat /\ a.attempt \in Nat
      <3>1. None \in Nat /\ 0 \in Nat /\ 1 \in Nat
        BY DEF None
      <3> QED BY <1>0, <1>1, <1>2, <1>3, <2>1, <3>1
    <2>6. lastId \in Nat
      BY DEF Worlds
    <2>7. a.id \in 0 .. lastId
      <3>1. 0 \in 0 .. lastId
        BY <2>6
      <3> QED BY <1>0, <1>1, <1>2, <1>3, <2>1, <3>1 DEF None
    <2> QED BY <1>0, <1>1, <1>2, <1>3, <2>1, <2>2, <2>3, <2>4, <2>5, <2>7 DEF RowOK, None
  <1> QED BY <1>4 DEF a

(***************************************************************************)
(* What a transaction does not write is as it was.                         *)
(***************************************************************************)
LEMMA Framed ==
    ASSUME Tables, scenario' = scenario, lastId' >= lastId, lastId \in Nat, lastId' \in Nat, DOMAIN db' = DbFields
    PROVE  /\ journal' = journal => JournalTypes' /\ IntentsTogether' /\ Intents' = Intents
           /\ pending' = pending /\ index' = index => PendingTypes'
           /\ rows' = rows => RowsTypes'
           /\ recoveries' = recoveries => RecoveriesTypes'
           /\ links' = links => LinksTypes'
           /\ index' = index /\ pending' = pending /\ recoveries' = recoveries /\ links' = links => Indexed'
           /\ index' = index /\ pending' = pending /\ journal' = journal => Unstarted' /\ Phases' /\ Roots'
           /\ index' = index /\ pending' = pending /\ journal' = journal /\ rows' = rows => Creations'
           /\ index' = index /\ pending' = pending /\ journal' = journal /\ links' = links /\ recoveries' = recoveries => Linked'
           /\ PendingTypes' /\ RowsTypes' /\ RecoveriesTypes' /\ LinksTypes' /\ JournalTypes' => Types'
  <1> USE DEF Tables
  <1>1. journal' = journal => JournalTypes'
    BY Grown DEF Types, JournalTypes
  <1>2. journal' = journal => IntentsTogether' /\ Intents' = Intents
    BY DEF IntentsTogether, Intents
  <1>3. pending' = pending /\ index' = index => PendingTypes'
    BY DEF Types, PendingTypes, State
  <1>4. rows' = rows => RowsTypes'
    BY Grown DEF Types, RowsTypes
  <1>5. recoveries' = recoveries => RecoveriesTypes'
    BY Grown DEF Types, RecoveriesTypes, RecoveryOK
  <1>6. links' = links => LinksTypes'
    BY Grown DEF Types, LinksTypes, LinkOK
  <1>7. index' = index /\ pending' = pending /\ recoveries' = recoveries /\ links' = links => Indexed'
    BY Grown DEF Indexed, Base, State
  <1>8. index' = index /\ pending' = pending /\ journal' = journal => Unstarted' /\ Phases' /\ Roots'
    BY <1>2 DEF Unstarted, Phases, Roots, RootIs, Base, State
  <1>9. index' = index /\ pending' = pending /\ journal' = journal /\ rows' = rows => Creations'
    BY DEF Creations, CreationOf, Base, State
  <1>10. index' = index /\ pending' = pending /\ journal' = journal /\ links' = links /\ recoveries' = recoveries => Linked'
    <2> SUFFICES ASSUME index' = index, pending' = pending, journal' = journal, links' = links, recoveries' = recoveries
                 PROVE  Linked'
      OBVIOUS
    <2>1. \A s, a : (CurrentIs(s, a)' <=> CurrentIs(s, a)) /\ (RestoreIs(s, a)' <=> RestoreIs(s, a))
      BY DEF CurrentIs, RestoreIs
    <2>2. \A s : Away(s)' <=> Away(s)
      BY <2>1 DEF Away
    <2> QED BY <2>1, <2>2 DEF Linked, Base, State
  <1>11. PendingTypes' /\ RowsTypes' /\ RecoveriesTypes' /\ LinksTypes' /\ JournalTypes' => Types'
    BY DEF Types, DbFields
  <1> QED BY <1>1, <1>2, <1>3, <1>4, <1>5, <1>6, <1>7, <1>8, <1>9, <1>10, <1>11

(* Nothing is written.                                                     *)
LEMMA SameTables ==
    ASSUME Tables, scenario' = scenario, lastId' >= lastId, lastId \in Nat, lastId' \in Nat, db' = db
    PROVE  Tables' /\ Intents' = Intents
  <1>1. DbIs(journal, pending, rows, recoveries, links, index)
    BY Transactions DEF Tables
  <1> QED BY <1>1, Framed DEF Tables, DbIs

(* The checkout paths are written.                                         *)
SameCreations(r) == \A p \in DOMAIN r :
    \/ r[p].create = None
    \/ p \in DOMAIN rows /\ r[p].create = rows[p].create /\ (index = "none" /\ r[p].temp = 0 => rows[p].temp = 0)
LEMMA RowsOnly ==
    ASSUME Tables, scenario' = scenario, lastId' = lastId, lastId \in Nat,
           NEW r, DbIs(journal, pending, r, recoveries, links, index),
           DOMAIN r \subseteq DOMAIN TargetShape, \A p \in DOMAIN r : PathRowOK(r[p]), SameCreations(r)
    PROVE  Tables' /\ Intents' = Intents
  <1>1. RowsTypes'
    BY Grown DEF Tables, DbIs, RowsTypes
  <1>2. Creations'
    BY DEF Tables, Creations, CreationOf, Base, State, DbIs, SameCreations
  <1> QED BY <1>1, <1>2, Framed DEF Tables, DbIs

(* The captured paths are written.                                         *)
LEMMA RecoveriesOnly ==
    ASSUME Tables, scenario' = scenario, lastId' = lastId, lastId \in Nat,
           NEW c, DbIs(journal, pending, rows, c, links, index), DOMAIN c = DOMAIN recoveries,
           \A p \in DOMAIN c : RecoveryOK(c[p]) /\ (recoveries[p].completed => c[p].completed)
    PROVE  Tables' /\ Intents' = Intents
  <1>1. RecoveriesTypes'
    BY Grown DEF Tables, Types, DbIs, RecoveriesTypes, RecoveryOK
  <1>2. Indexed'
    BY Grown DEF Tables, Indexed, Base, State, DbIs
  <1>3. Linked'
    <2>1. \A s, a : (CurrentIs(s, a)' <=> CurrentIs(s, a)) /\ (RestoreIs(s, a)' <=> RestoreIs(s, a))
      BY DEF CurrentIs, RestoreIs, DbIs
    <2>2. \A s : Away(s)' <=> Away(s)
      BY <2>1 DEF Away, DbIs
    <2> QED BY <2>1, <2>2 DEF Tables, Linked, Base, State, DbIs
  <1> QED BY <1>1, <1>2, <1>3, Framed DEF Tables, DbIs

(***************************************************************************)
(* The process.                                                            *)
(***************************************************************************)
Control == RunTypes /\ Stages /\ Places /\ Acting

LEMMA AtRest ==
    ASSUME run' = NoRun
    PROVE  Control'
  BY DEF Control, RunTypes, Stages, Places, Acting, NoRun, BindStages, ApplyStages, QuietStages, BackStages, Applying, TakingBack

(* The process stays where it is.                                          *)
Onwards ==
    /\ DOMAIN recoveries' \subseteq DOMAIN recoveries
    /\ \A p \in DOMAIN recoveries' : recoveries[p].completed => recoveries'[p].completed
LEMMA StillThere ==
    ASSUME Stages, Places, run.stage \notin QuietStages, run'.cmd = run.cmd, run'.stage = run.stage, run'.at = run.at,
           scenario' = scenario, index' = index, DOMAIN rows' = DOMAIN rows, Onwards,
           State' = State \/ State' = "rolling_back",
           Applying => State' = "applying" \/ Turned', Applying => DOMAIN links \subseteq DOMAIN links',
           run.stage = "restore" \/ TakingBack =>
               \A s \in DOMAIN links' : s \in DOMAIN links /\ (links[s].rollback # None => links'[s].rollback # None)
    PROVE  Stages' /\ Places'
  <1>1. /\ Applying' <=> Applying
        /\ TakingBack' <=> TakingBack
        /\ Base' <=> Base
    BY DEF Applying, TakingBack, Base
  <1>2. Entries' = Entries /\ Promote' = Promote /\ Tops' = Tops /\ TargetShape' = TargetShape
    BY DEF Entries, Promote, Tops, TargetShape
  <1>3. Stages'
    BY <1>1 DEF Stages, QuietStages
  <1>4. run.stage = "promote" => Applying
    BY DEF Applying, ApplyStages, Stages, BindStages
  <1>5. Places'
    BY <1>1, <1>2, <1>4 DEF Places, QuietStages, Onwards, BackStages
  <1> QED BY <1>3, <1>5

(***************************************************************************)
(* A row is rewritten, and perhaps another added that moves an unknown     *)
(* object aside.                                                           *)
(***************************************************************************)
Alike(a, r) == r.order = a.order /\ r.op = a.op /\ r.origin = a.origin /\ (IsPromotion(r) <=> IsPromotion(a))
               /\ r.state \in {"completed", a.state}
Asides(N, n) == N = {} \/ (N = {n} /\ RowOK(n) /\ n.order = NextOrder /\ ~ IsPromotion(n) /\ n.op \notin {"restore", "create"})

LEMMA Rewritten ==
    ASSUME Tables, NEW a \in journal, NEW r, RowOK(r), Alike(a, r), NEW N, NEW n, Asides(N, n),
           scenario' = scenario, lastId' = lastId, lastId \in Nat,
           NEW p, DbIs(Replace(a, r) \cup N, p, rows, recoveries, links, index), DOMAIN p = {"state", "stamp"},
           State' = State \/ (State \in {"pending", "applying"} /\ State' = "rolling_back"),
           N # {} => State' # "applying" /\ (Base => State' \notin {"none", "pending"})
    PROVE  Types' /\ Unstarted' /\ Roots' /\ Creations' /\ Linked' /\ Indexed'
  <1> USE DEF Tables
  <1>0. journal' = Replace(a, r) \cup N /\ pending' = p /\ rows' = rows /\ recoveries' = recoveries /\ links' = links
        /\ index' = index /\ DOMAIN db' = DbFields
    BY DEF DbIs
  <1>1. \A c \in journal : c.order = a.order => c = a
    BY DEF Types, JournalTypes
  <1>2. \A c \in journal : c.order < NextOrder /\ c.order \in Nat
    BY NextOrderIs DEF Types, JournalTypes, RowOK
  <1>3. NextOrder \in Nat
    BY NextOrderIs DEF Types
  <1>4. JournalTypes'
    <2>1. IsFiniteSet(journal')
      <3>1. IsFiniteSet(journal \ {a})
        BY FS_Subset DEF Types, JournalTypes
      <3>2. IsFiniteSet((journal \ {a}) \cup {r})
        BY <3>1, FS_AddElement
      <3>3. N = {} \/ N = {n}
        BY DEF Asides
      <3>4. IsFiniteSet(((journal \ {a}) \cup {r}) \cup {n})
        BY <3>2, FS_AddElement
      <3> QED BY <1>0, <3>2, <3>3, <3>4 DEF Replace
    <2>2. \A c \in journal' : RowOK(c)
      BY <1>0 DEF Types, JournalTypes, Replace, Asides
    <2>3. \A c \in journal' : RowOK(c)'
      BY <2>2, Grown
    <2>4. \A c \in journal' : c \in journal \ {a} \/ c = r \/ (c = n /\ N # {})
      BY <1>0 DEF Replace, Asides
    <2>5. N # {} => \A c \in journal : c.order # n.order
      <3> SUFFICES ASSUME n.order = NextOrder, NEW c \in journal PROVE c.order # n.order
        BY DEF Asides
      <3> QED BY <1>2, <1>3
    <2>6. \A c, d \in journal' : c.order = d.order => c = d
      BY <1>1, <2>4, <2>5 DEF Types, JournalTypes, Alike
    <2> QED BY <2>1, <2>3, <2>6 DEF JournalTypes
  <1>5. PendingTypes'
    BY <1>0 DEF Types, PendingTypes, State
  <1>6. Types'
    BY <1>0, <1>4, <1>5, Framed
  <1>7. Unstarted'
    <2> SUFFICES ASSUME Base', State' \in {"none", "pending"}, NEW c \in journal' PROVE c.origin = None /\ ~ IsPromotion(c)
      BY DEF Unstarted
    <2>1. Base /\ State \in {"none", "pending"} /\ N = {}
      BY <1>0 DEF Base
    <2> QED BY <1>0, <2>1 DEF Unstarted, Replace, Alike
  <1>8. \A x \in journal : \E y \in journal' : y.order = x.order /\ y.op = x.op /\ y.origin = x.origin /\ (IsPromotion(y) <=> IsPromotion(x))
    BY <1>0 DEF Replace, Alike
  <1>9. \A y \in journal' \ N : \E x \in journal : y.order = x.order /\ y.op = x.op /\ y.origin = x.origin /\ (IsPromotion(y) <=> IsPromotion(x))
            /\ y.state \in {"completed", x.state}
    BY <1>0 DEF Replace, Alike
  <1>10. Roots'
    <2> SUFFICES ASSUME State' = "applying", NEW c \in journal', c.origin # None PROVE IsPromotion(c) /\ \E x : RootIs(c, x)'
      BY DEF Roots
    <2>1. State = "applying" /\ N = {}
      OBVIOUS
    <2>2. PICK x \in journal : c.order = x.order /\ c.op = x.op /\ c.origin = x.origin /\ (IsPromotion(c) <=> IsPromotion(x))
      BY <1>9, <2>1
    <2>3. PICK z : RootIs(x, z)
      BY <2>1, <2>2 DEF Roots
    <2>4. PICK y \in journal' : y.order = z.order /\ y.op = z.op /\ y.origin = z.origin /\ (IsPromotion(y) <=> IsPromotion(z))
      BY <1>8, <2>3 DEF RootIs
    <2>5. RootIs(c, y)'
      BY <2>2, <2>3, <2>4 DEF RootIs
    <2> QED BY <2>1, <2>2, <2>5 DEF Roots
  <1>11. Creations'
    <2>1. \A o : (\E x : CreationOf(o, x)) => \E x : CreationOf(o, x)'
      BY <1>8 DEF CreationOf
    <2> QED BY <1>0, <2>1 DEF Creations, Base
  <1>12. Indexed'
    BY <1>0, Grown DEF Indexed, Base
  <1>13. Linked'
    <2>1. \A s : (\E x : CurrentIs(s, x)) => \E x : CurrentIs(s, x)'
      BY <1>0, <1>8 DEF CurrentIs
    <2>2. \A s : (\E x : RestoreIs(s, x)) => \E x : RestoreIs(s, x)'
      BY <1>0, <1>8 DEF RestoreIs
    <2>3. ASSUME NEW s, NEW y, RestoreIs(s, y)', y.state = "intent" PROVE \E x : RestoreIs(s, x) /\ x.state = "intent"
      <3>1. y \in journal' \ N /\ y.order = links[s].rollback /\ y.op = "restore"
        BY <1>0, <2>3 DEF RestoreIs, Asides
      <3>2. PICK x \in journal : y.order = x.order /\ y.op = x.op /\ y.state \in {"completed", x.state}
        BY <1>9, <3>1
      <3>3. RestoreIs(s, x) /\ x.state = "intent"
        BY <2>3, <3>1, <3>2 DEF RestoreIs
      <3> QED BY <3>3
    <2>4. \A s : Away(s)' => Away(s)
      BY <1>0, <2>3 DEF Away
    <2> QED BY <1>0, <2>1, <2>2, <2>4 DEF Linked, Base
  <1> QED BY <1>6, <1>7, <1>10, <1>11, <1>12, <1>13

(***************************************************************************)
(* Rows that nothing refers to are deleted.                                *)
(***************************************************************************)
LEMMA RowDropped ==
    ASSUME Tables, NEW a \in journal, ~ Kept(a), scenario' = scenario, lastId' = lastId, lastId \in Nat,
           DbIs(journal \ {a}, pending, rows, recoveries, links, index)
    PROVE  Tables' /\ Intents' = Intents \ {a}
  <1> USE DEF Tables
  <1>0. journal' = journal \ {a} /\ pending' = pending /\ rows' = rows /\ recoveries' = recoveries /\ links' = links
        /\ index' = index /\ DOMAIN db' = DbFields
    BY DEF DbIs
  <1>1. JournalTypes'
    <2>1. IsFiniteSet(journal') /\ journal' \subseteq journal
      BY <1>0, FS_Subset DEF Types, JournalTypes
    <2> QED BY <2>1, Grown DEF Types, JournalTypes
  <1>2. a.op \notin {"create", "restore"} /\ ~ IsPromotion(a)
    BY DEF Kept
  <1>3. Intents' = Intents \ {a}
    BY <1>0 DEF Intents
  <1>4. Unstarted' /\ IntentsTogether' /\ Phases'
    BY <1>0, <1>3 DEF Unstarted, IntentsTogether, Phases, Base, State
  <1>5. Roots'
    BY <1>0, <1>2 DEF Roots, RootIs, State
  <1>6. Creations'
    BY <1>0, <1>2 DEF Creations, CreationOf, Base, State
  <1>7. Linked'
    <2>1. \A s, x : (CurrentIs(s, x) => CurrentIs(s, x)') /\ (RestoreIs(s, x) <=> RestoreIs(s, x)')
      BY <1>0, <1>2 DEF CurrentIs, RestoreIs
    <2>2. \A s : Away(s)' <=> Away(s)
      BY <1>0, <2>1 DEF Away
    <2> QED BY <1>0, <2>1, <2>2 DEF Linked, Base, State
  <1> QED BY <1>0, <1>1, <1>3, <1>4, <1>5, <1>6, <1>7, Framed

(***************************************************************************)
(* The row of an action that is done.                                      *)
(***************************************************************************)
CompletedRow(a) == [a EXCEPT !.state = "completed"]
LEMMA CompletedRowOK ==
    ASSUME NEW a, RowOK(a), a.state = "intent"
    PROVE  RowOK(CompletedRow(a)) /\ Alike(a, CompletedRow(a)) /\ CompletedRow(a).state = "completed"
           /\ CompletedRow(a).id = a.id /\ CompletedRow(a).path = a.path /\ CompletedRow(a).target = a.target
           /\ CompletedRow(a).kind = a.kind /\ CompletedRow(a).outcome = a.outcome /\ CompletedRow(a).attempt = a.attempt
  <1> DEFINE r == CompletedRow(a)
  <1>1. DOMAIN a = RowFields
    BY DEF RowOK
  <1>2. DOMAIN r = RowFields
    BY <1>1 DEF CompletedRow, RowFields
  <1>3. r.order = a.order /\ r.op = a.op /\ r.phase = a.phase /\ r.path = a.path /\ r.target = a.target /\ r.kind = a.kind
        /\ r.id = a.id /\ r.shape = a.shape /\ r.origin = a.origin /\ r.attempt = a.attempt /\ r.outcome = a.outcome
        /\ r.state = "completed"
    BY <1>1 DEF CompletedRow, RowFields
  <1> HIDE DEF r
  <1>4. (IsPromotion(r) <=> IsPromotion(a)) /\ (Plain(r) <=> Plain(a)) /\ (Preserving(r) <=> Preserving(a))
    BY <1>3 DEF IsPromotion, Plain, Preserving
  <1>5. RowOK(r)
    BY <1>2, <1>3, <1>4 DEF RowOK
  <1> QED BY <1>3, <1>4, <1>5 DEF r, Alike

LEMMA Completing ==
    ASSUME Tables, NEW a \in Intents, scenario' = scenario, lastId' = lastId, lastId \in Nat,
           db' = [db EXCEPT !.journal = IF Kept(a) THEN Replace(a, [a EXCEPT !.state = "completed"]) ELSE journal \ {a}]
    PROVE  /\ Tables' /\ Intents' = Intents \ {a}
           /\ pending' = pending /\ rows' = rows /\ recoveries' = recoveries /\ links' = links /\ index' = index
  <1>1. a \in journal /\ a.state = "intent" /\ RowOK(a)
    BY DEF Intents, Tables, Types, JournalTypes
  <1>2. CASE Kept(a)
    <2> DEFINE r == CompletedRow(a)
    <2>1. RowOK(r) /\ Alike(a, r) /\ r.state = "completed"
      BY <1>1, CompletedRowOK
    <2>2. db' = [db EXCEPT !.journal = Replace(a, r)]
      BY <1>2 DEF CompletedRow
    <2> HIDE DEF r
    <2>3. DbIs(Replace(a, r), pending, rows, recoveries, links, index)
      BY <2>2, Transactions DEF Tables
    <2>4. DbIs(Replace(a, r) \cup {}, pending, rows, recoveries, links, index) /\ State' = State
      BY <2>3 DEF DbIs, State
    <2>5. DOMAIN pending = {"state", "stamp"}
      BY DEF Tables, Types, PendingTypes
    <2>6. Asides({}, r)
      BY DEF Asides
    <2>7. Intents' = Intents \ {a}
      BY <1>1, <2>1, <2>3 DEF Intents, DbIs, Replace
    <2>8. IntentsTogether' /\ Phases'
      BY <2>3, <2>7 DEF Tables, IntentsTogether, Phases, Base, State, DbIs
    <2>9. Types' /\ Unstarted' /\ Roots' /\ Creations' /\ Linked' /\ Indexed'
      BY <1>1, <2>1, <2>4, <2>5, <2>6, Rewritten
    <2> QED BY <2>3, <2>7, <2>8, <2>9 DEF Tables, DbIs
  <1>3. CASE ~ Kept(a)
    <2>1. DbIs(journal \ {a}, pending, rows, recoveries, links, index)
      <3>1. db' = [db EXCEPT !.journal = journal \ {a}]
        BY <1>3
      <3> QED BY <3>1, Transactions DEF Tables
    <2> QED BY <1>1, <1>3, <2>1, RowDropped DEF DbIs
  <1> QED BY <1>2, <1>3

(* An intent to create has no other beside it.                             *)
LEMMA Alone ==
    ASSUME Tables, NEW a \in Intents, a.op # "remove", ~ IsPromotion(a)
    PROVE  Intents = {a} /\ Current = a
  <1>1. \A c \in Intents : c = a
    BY DEF Tables, IntentsTogether, Together
  <1>2. Current \in Intents
    BY CurrentIntent
  <1> QED BY <1>1, <1>2

(***************************************************************************)
(* Unknown objects.                                                        *)
(***************************************************************************)
RolledBackRow(a) == [a EXCEPT !.state = "completed", !.outcome = "rolled_back"]
CollidedRow(a) == [a EXCEPT !.state = "completed", !.outcome = "collision"]
NextAside(a) == [a EXCEPT !.order = NextOrder, !.attempt = @ + 1, !.target = Recovered(a.path, a.attempt + 1)]
IdentifiedRow(a, id) == [a EXCEPT !.id = id]

LEMMA TurnedRowsOK ==
    ASSUME NEW a, RowOK(a), a.state = "intent"
    PROVE  /\ RowOK(RolledBackRow(a)) /\ Alike(a, RolledBackRow(a)) /\ RolledBackRow(a).state = "completed"
           /\ RowOK(CollidedRow(a)) /\ Alike(a, CollidedRow(a)) /\ CollidedRow(a).state = "completed"
  <1>1. DOMAIN a = RowFields
    BY DEF RowOK
  <1>2. ASSUME NEW o \in {"rolled_back", "collision"}, NEW r, r = [a EXCEPT !.state = "completed", !.outcome = o]
        PROVE  RowOK(r) /\ Alike(a, r) /\ r.state = "completed"
    <2>1. DOMAIN r = RowFields
      BY <1>1, <1>2 DEF RowFields
    <2>2. r.order = a.order /\ r.op = a.op /\ r.phase = a.phase /\ r.path = a.path /\ r.target = a.target /\ r.kind = a.kind
          /\ r.id = a.id /\ r.shape = a.shape /\ r.origin = a.origin /\ r.attempt = a.attempt /\ r.outcome = o
          /\ r.state = "completed"
      BY <1>1, <1>2 DEF RowFields
    <2>3. (IsPromotion(r) <=> IsPromotion(a)) /\ (Plain(r) <=> Plain(a)) /\ ~ Preserving(r)
      BY <2>2 DEF IsPromotion, Plain, Preserving
    <2>4. RowOK(r)
      BY <2>1, <2>2, <2>3 DEF RowOK
    <2> QED BY <2>2, <2>3, <2>4 DEF Alike
  <1> QED BY <1>2 DEF RolledBackRow, CollidedRow

LEMMA NextAsideOK ==
    ASSUME JournalTypes, NEW a \in journal, a.state = "intent", Preserving(a)
    PROVE  LET n == NextAside(a) IN
           /\ RowOK(n) /\ n.order = NextOrder /\ n.op = "rename" /\ ~ IsPromotion(n) /\ Plain(n) /\ Preserving(n)
           /\ n.state = "intent" /\ n.phase = "rollback" /\ n.path = a.path
  <1> DEFINE n == NextAside(a)
             q == Recovered(a.path, a.attempt + 1)
  <1>0. RowOK(a) /\ DOMAIN a = RowFields /\ Plain(a)
    BY DEF JournalTypes, RowOK
  <1>1. DOMAIN n = RowFields
    BY <1>0 DEF NextAside, RowFields
  <1>2. n.order = NextOrder /\ n.op = a.op /\ n.phase = a.phase /\ n.path = a.path /\ n.target = q /\ n.kind = a.kind
        /\ n.id = a.id /\ n.shape = a.shape /\ n.origin = a.origin /\ n.outcome = a.outcome /\ n.state = a.state
    BY <1>0 DEF NextAside, RowFields
  <1>3. n.attempt = a.attempt + 1
    BY <1>0 DEF NextAside, RowFields
  <1>4. a.attempt + 1 \in Nat
    <2>1. a.attempt \in Nat
      BY <1>0 DEF RowOK
    <2> QED BY <2>1
  <1>5. q \in Path /\ q # <<>> /\ Parent(q) = Parent(a.path) /\ Last(q)[1] = "recovered"
    <2>1. a.path \in Path /\ a.path # <<>>
      BY <1>0 DEF RowOK
    <2>2. "recovered" \in VisibleForms
      BY DEF VisibleForms
    <2> QED BY <1>4, <2>1, <2>2, RenamedIs DEF Recovered
  <1>6. NextOrder \in Nat \ {0}
    BY NextOrderIs
  <1> HIDE DEF n, q
  <1>7. ~ IsPromotion(n) /\ Plain(n) /\ Preserving(n) /\ ~ IsTemp(n.target)
    BY <1>0, <1>2, <1>5 DEF IsPromotion, Plain, Preserving, IsTemp
  <1>8. n.attempt \in Nat
    BY <1>3, <1>4
  <1>9. a.origin # None /\ a.phase = "rollback"
    BY <1>0 DEF RowOK
  <1>10. RowOK(n)
    BY <1>0, <1>1, <1>2, <1>5, <1>6, <1>7, <1>8, <1>9 DEF RowOK, Plain
  <1> QED BY <1>0, <1>2, <1>7, <1>9, <1>10 DEF n, Plain

LEMMA RolledBackUnknown ==
    ASSUME Tables, Worlds, NEW a \in Intents, a.op = "create", RollBackUnknown(a), scenario' = scenario
    PROVE  /\ Tables' /\ Turned' /\ State' # "applying" /\ State' \in {State, "rolling_back"} /\ (Base => State' = "rolling_back")
           /\ (State = "pending" => State' = "rolling_back")
           /\ Intents' = {AsideRow(a)} /\ rows' = rows /\ recoveries' = recoveries /\ links' = links /\ index' = index
           /\ tree' = tree /\ lastId' = lastId /\ run' = run /\ journal' = Replace(a, RolledBackRow(a)) \cup {AsideRow(a)}
  <1> DEFINE r == RolledBackRow(a)
             n == AsideRow(a)
             p == IF pending.state \in {"pending", "applying"}
                  THEN [state |-> "rolling_back", stamp |-> IF pending.stamp = NoStamp THEN tree[<<>>].data ELSE pending.stamp]
                  ELSE pending
  <1>1. a \in journal /\ a.state = "intent" /\ RowOK(a) /\ JournalTypes /\ ~ IsPromotion(a) /\ a.phase = "pre_base"
    BY DEF Intents, Tables, Types, JournalTypes, IsPromotion, RowOK
  <1>2. RowOK(r) /\ Alike(a, r) /\ r.state = "completed"
    BY <1>1, TurnedRowsOK
  <1>3. RowOK(n) /\ Plain(n) /\ Preserving(n)
    BY <1>1, AsideRowOK
  <1>4. RowIsOf(n, "rename", "rollback", a.path, Recovered(a.path, 1), a.kind, None, NoShape, NoStamp, a.order, 1, "preserve_unknown")
    BY RowsAre
  <1>5. tree' = tree /\ lastId' = lastId /\ run' = run
    BY DEF RollBackUnknown, Tx, fs
  <1>6. db' = [db EXCEPT !.journal = Replace(a, r) \cup {n}, !.pending = p]
    <2>1. DOMAIN db = DbFields
      BY DEF Tables, Types, DbFields
    <2> QED BY <2>1 DEF RollBackUnknown, Tx, RolledBackRow, AsideRow, DbFields, pending
  <1>7. DOMAIN p = {"state", "stamp"} /\ p.state = IF State \in {"pending", "applying"} THEN "rolling_back" ELSE State
    BY DEF Tables, Types, PendingTypes, State
  <1> HIDE DEF r, n, p
  <1>8. DbIs(Replace(a, r) \cup {n}, p, rows, recoveries, links, index)
    BY <1>6, Transactions DEF Tables
  <1>9. State' = IF State \in {"pending", "applying"} THEN "rolling_back" ELSE State
    BY <1>7, <1>8 DEF DbIs, State
  <1>10. Base => State = "applying"
    BY <1>1 DEF Tables, Phases
  <1>11. Asides({n}, n)
    BY <1>3, <1>4 DEF Asides, RowIsOf, Plain, IsPromotion
  <1>12. lastId \in Nat
    BY DEF Worlds
  <1>13. {n} # {} => State' # "applying" /\ (Base => State' \notin {"none", "pending"})
    BY <1>9, <1>10
  <1>14. State' = State \/ (State \in {"pending", "applying"} /\ State' = "rolling_back")
    BY <1>9
  <1>15. Types' /\ Unstarted' /\ Roots' /\ Creations' /\ Linked' /\ Indexed'
    BY <1>1, <1>2, <1>5, <1>7, <1>8, <1>11, <1>12, <1>13, <1>14, Rewritten
  <1>16. Intents' = {n}
    <2>1. Intents = {a}
      BY <1>1, Alone
    <2>2. n.state = "intent" /\ journal' = (journal \ {a}) \cup {r, n}
      BY <1>4, <1>8 DEF DbIs, Replace, RowIsOf
    <2> QED BY <1>1, <1>2, <2>1, <2>2 DEF Intents
  <1>17. IntentsTogether' /\ Phases'
    BY <1>3, <1>4, <1>16 DEF IntentsTogether, Phases, RowIsOf, Plain, IsPromotion
  <1>18. Turned'
    BY <1>3, <1>16 DEF Turned
  <1> QED BY <1>5, <1>8, <1>9, <1>10, <1>13, <1>15, <1>16, <1>17, <1>18 DEF DbIs, Tables, n, r

LEMMA AdvancedPreserved ==
    ASSUME Tables, Worlds, NEW a \in Intents, Preserving(a), AdvancePreserved(a), scenario' = scenario
    PROVE  /\ Tables' /\ Turned' /\ State' = State /\ State' # "applying"
           /\ Intents' = {NextAside(a)} /\ pending' = pending /\ rows' = rows /\ recoveries' = recoveries /\ links' = links
           /\ index' = index /\ tree' = tree /\ lastId' = lastId /\ run' = run
           /\ journal' = Replace(a, CollidedRow(a)) \cup {NextAside(a)}
  <1> DEFINE r == CollidedRow(a)
             n == NextAside(a)
  <1>1. a \in journal /\ a.state = "intent" /\ RowOK(a) /\ JournalTypes
    BY DEF Intents, Tables, Types, JournalTypes
  <1>2. ~ IsPromotion(a) /\ a.origin # None /\ a.op = "rename"
    BY <1>1 DEF RowOK, Plain, IsPromotion
  <1>3. RowOK(r) /\ Alike(a, r) /\ r.state = "completed"
    BY <1>1, TurnedRowsOK
  <1>4. /\ RowOK(n) /\ n.order = NextOrder /\ n.op = "rename" /\ ~ IsPromotion(n) /\ Plain(n) /\ Preserving(n)
        /\ n.state = "intent" /\ n.phase = "rollback"
    BY <1>1, NextAsideOK
  <1>5. tree' = tree /\ lastId' = lastId /\ run' = run
    BY DEF AdvancePreserved, Tx, fs
  <1>6. db' = [db EXCEPT !.journal = Replace(a, r) \cup {n}]
    BY DEF AdvancePreserved, Tx, CollidedRow, NextAside
  <1> HIDE DEF r, n
  <1>8. DbIs(Replace(a, r) \cup {n}, pending, rows, recoveries, links, index)
    BY <1>6, Transactions DEF Tables
  <1>9. State' = State /\ State # "applying" /\ (Base => State' \notin {"none", "pending"})
    BY <1>1, <1>2, <1>8 DEF DbIs, State, Tables, Roots, Unstarted
  <1>11. Asides({n}, n)
    BY <1>4 DEF Asides
  <1>12. lastId \in Nat /\ DOMAIN pending = {"state", "stamp"}
    BY DEF Worlds, Tables, Types, PendingTypes
  <1>15. Types' /\ Unstarted' /\ Roots' /\ Creations' /\ Linked' /\ Indexed'
    BY <1>1, <1>3, <1>5, <1>8, <1>9, <1>11, <1>12, Rewritten
  <1>16. Intents' = {n}
    <2>1. Intents = {a}
      BY <1>1, <1>2, Alone
    <2>2. journal' = (journal \ {a}) \cup {r, n}
      BY <1>8 DEF DbIs, Replace
    <2> QED BY <1>1, <1>3, <1>4, <2>1, <2>2 DEF Intents
  <1>17. IntentsTogether' /\ Phases'
    BY <1>4, <1>16 DEF IntentsTogether, Phases
  <1>18. Turned'
    BY <1>4, <1>16 DEF Turned
  <1> QED BY <1>5, <1>8, <1>9, <1>15, <1>16, <1>17, <1>18 DEF DbIs, Tables, n, r

(***************************************************************************)
(* The identity of what was created is recorded.                           *)
(***************************************************************************)
LEMMA Identified ==
    ASSUME Tables, Worlds, NEW a \in Intents, a.op = "create", NEW id \in 0 .. lastId, scenario' = scenario, lastId' = lastId,
           db' = [db EXCEPT !.journal = Replace(a, [a EXCEPT !.id = id])]
    PROVE  /\ Tables' /\ Intents' = {IdentifiedRow(a, id)} /\ IdentifiedRow(a, id).path = a.path /\ IdentifiedRow(a, id).kind = a.kind
           /\ pending' = pending /\ rows' = rows /\ recoveries' = recoveries /\ links' = links /\ index' = index
           /\ journal' = Replace(a, IdentifiedRow(a, id)) /\ IdentifiedRow(a, id).op = "create" /\ IdentifiedRow(a, id).id = id
           /\ RowOK(IdentifiedRow(a, id)) /\ Alike(a, IdentifiedRow(a, id))
  <1> DEFINE r == IdentifiedRow(a, id)
  <1>1. a \in journal /\ a.state = "intent" /\ RowOK(a) /\ JournalTypes /\ ~ IsPromotion(a) /\ DOMAIN a = RowFields
    BY DEF Intents, Tables, Types, JournalTypes, IsPromotion, RowOK
  <1>2. DOMAIN r = RowFields
    BY <1>1 DEF IdentifiedRow, RowFields
  <1>3. r.order = a.order /\ r.op = a.op /\ r.phase = a.phase /\ r.path = a.path /\ r.target = a.target /\ r.kind = a.kind
        /\ r.id = id /\ r.shape = a.shape /\ r.origin = a.origin /\ r.attempt = a.attempt /\ r.outcome = a.outcome
        /\ r.state = a.state
    BY <1>1 DEF IdentifiedRow, RowFields
  <1>4. db' = [db EXCEPT !.journal = Replace(a, r)]
    BY DEF IdentifiedRow
  <1> HIDE DEF r
  <1>5. (IsPromotion(r) <=> IsPromotion(a)) /\ ~ IsPromotion(r) /\ (Plain(r) <=> Plain(a)) /\ (Preserving(r) <=> Preserving(a))
    BY <1>1, <1>3 DEF IsPromotion, Plain, Preserving
  <1>6. RowOK(r) /\ Alike(a, r)
    <2>1. RowOK(r)
      BY <1>1, <1>2, <1>3, <1>5 DEF RowOK
    <2> QED BY <1>1, <1>3, <1>5, <2>1 DEF Alike
  <1>7. DbIs(Replace(a, r), pending, rows, recoveries, links, index)
    BY <1>4, Transactions DEF Tables
  <1>8. DbIs(Replace(a, r) \cup {}, pending, rows, recoveries, links, index) /\ State' = State
    BY <1>7 DEF DbIs, State
  <1>9. lastId \in Nat /\ DOMAIN pending = {"state", "stamp"} /\ Asides({}, r)
    BY DEF Worlds, Tables, Types, PendingTypes, Asides
  <1>10. Types' /\ Unstarted' /\ Roots' /\ Creations' /\ Linked' /\ Indexed'
    BY <1>1, <1>6, <1>8, <1>9, Rewritten
  <1>11. Intents' = {r}
    <2>1. Intents = {a}
      BY <1>1, Alone
    <2>2. journal' = (journal \ {a}) \cup {r}
      BY <1>7 DEF DbIs, Replace
    <2> QED BY <1>1, <1>3, <2>1, <2>2 DEF Intents
  <1>12. IntentsTogether' /\ Phases'
    BY <1>1, <1>3, <1>5, <1>7, <1>11 DEF IntentsTogether, Phases, Tables, Base, State, DbIs
  <1> QED BY <1>3, <1>6, <1>7, <1>10, <1>11, <1>12 DEF DbIs, Tables, r

(***************************************************************************)
(* The chain of a promotion.                                               *)
(***************************************************************************)
LEMMA ChainIs ==
    ASSUME Tables, State = "applying", NEW c \in journal, IsPromotion(c)
    PROVE  LET root == RootOf(c) tail == TailOf(root) IN
           /\ root \in journal /\ root.order = RootOrder(c) /\ root.origin = None /\ IsPromotion(root)
           /\ root.order \in Nat \ {0}
           /\ tail \in journal /\ tail.attempt \in Nat /\ tail.attempt + 1 \in Nat
           /\ VisiblePath(tail.target) /\ VisiblePath(NextName(tail.target))
           /\ \A x \in journal : IsPromotion(x) /\ RootOrder(x) = RootOrder(c) => x.attempt \in Nat /\ x.attempt <= tail.attempt
  <1> DEFINE root == RootOf(c)
             tail == TailOf(root)
  <1> USE DEF Tables
  <1>1. root \in journal /\ root.order = RootOrder(c) /\ root.origin = None /\ IsPromotion(root)
    <2>1. CASE c.origin = None
      BY <2>1 DEF RootOf, RootOrder
    <2>2. CASE c.origin # None
      <3>1. PICK r : RootIs(c, r)
        BY <2>2 DEF Roots
      <3>2. Row(c.origin) = r
        BY <3>1, RowIs DEF Types, RootIs
      <3> QED BY <2>2, <3>1, <3>2 DEF RootOf, RootOrder, RootIs
    <2> QED BY <2>1, <2>2
  <1>2. root.order \in Nat \ {0} /\ RowOK(root)
    BY <1>1 DEF Types, JournalTypes, RowOK
  <1> HIDE DEF root
  <1>3. /\ Chain(root.order) = {} => tail = root
        /\ Chain(root.order) # {} => tail \in Chain(root.order)
        /\ tail \in journal
        /\ \A a \in Chain(root.order) : a.attempt <= tail.attempt
    BY <1>1, TailIs DEF Types
  <1> HIDE DEF tail
  <1>4. IsPromotion(tail)
    BY <1>1, <1>2, <1>3 DEF Chain, Roots, None
  <1>5. tail.attempt \in Nat /\ VisiblePath(tail.target)
    BY <1>3, <1>4 DEF Types, JournalTypes, RowOK
  <1>6. VisiblePath(NextName(tail.target))
    BY <1>5, NextNameIs
  <1>7. ASSUME NEW x \in journal, IsPromotion(x), RootOrder(x) = RootOrder(c)
        PROVE  x.attempt \in Nat /\ x.attempt <= tail.attempt
    <2>1. x.attempt \in Nat /\ (x.origin = None => x.attempt = 0)
      BY DEF Types, JournalTypes, RowOK
    <2>2. CASE x.origin = None
      BY <1>5, <2>1, <2>2
    <2>3. CASE x.origin # None
      <3>1. x \in Chain(root.order)
        BY <1>1, <1>7, <2>3 DEF Chain, RootOrder
      <3> QED BY <1>3, <2>1, <3>1
    <2> QED BY <2>2, <2>3
  <1>8. tail.attempt + 1 \in Nat
    BY <1>5
  <1> QED BY <1>1, <1>2, <1>3, <1>5, <1>6, <1>7, <1>8 DEF root, tail

(* The next row of the chain of c.                                         *)
NextOfChain(c, p, id) == ChainRow(p, NextName(TailOf(RootOf(c)).target), id, RootOf(c).order, TailOf(RootOf(c)).attempt + 1)
Chained(n, c, p, id) ==
    /\ RowOK(n) /\ IsPromotion(n) /\ Admitted(n) /\ n.order = NextOrder /\ n.op = "rename" /\ n.id = id /\ n.path = p
    /\ n.state = "intent" /\ n.shape = Shape(tree, p) /\ n.phase = "pre_base" /\ n.outcome = ""
    /\ RootOrder(n) = RootOrder(c) /\ n.origin # None /\ VisiblePath(n.target)
    /\ \A x \in Intents : Together(x, n) /\ Together(n, x)
LEMMA NextOfChainOK ==
    ASSUME Tables, Worlds, State = "applying", NEW c \in journal, IsPromotion(c), NEW p, NEW id, HasId(tree, p, id),
           \A x \in Intents : IsPromotion(x) /\ RootOrder(x) = RootOrder(c)
    PROVE  Chained(NextOfChain(c, p, id), c, p, id)
  <1> DEFINE root == RootOf(c)
             tail == TailOf(root)
             n == NextOfChain(c, p, id)
  <1>1. /\ root \in journal /\ root.order = RootOrder(c) /\ root.origin = None /\ IsPromotion(root)
        /\ root.order \in Nat \ {0}
        /\ tail \in journal /\ tail.attempt \in Nat /\ tail.attempt + 1 \in Nat
        /\ VisiblePath(tail.target) /\ VisiblePath(NextName(tail.target))
        /\ \A x \in journal : IsPromotion(x) /\ RootOrder(x) = RootOrder(c) => x.attempt \in Nat /\ x.attempt <= tail.attempt
    BY ChainIs
  <1>2. n = ChainRow(p, NextName(tail.target), id, root.order, tail.attempt + 1)
    BY DEF NextOfChain
  <1> HIDE DEF root, tail, n
  <1>3. JournalTypes
    BY DEF Tables, Types
  <1>4. RowOK(n) /\ IsPromotion(n)
    BY <1>1, <1>2, <1>3, ChainRowOK
  <1>5. RowIsOf(n, "rename", "pre_base", p, NextName(tail.target), "File", id, Shape(tree, p), NoStamp, root.order, tail.attempt + 1, "")
    BY <1>2, RowsAre
  <1>6. n.order = NextOrder /\ n.op = "rename" /\ n.id = id /\ n.path = p /\ n.state = "intent" /\ n.shape = Shape(tree, p)
        /\ n.phase = "pre_base" /\ n.origin = root.order /\ n.attempt = tail.attempt + 1 /\ n.target = NextName(tail.target)
        /\ n.outcome = ""
    BY <1>5 DEF RowIsOf
  <1>7. n.origin # None /\ RootOrder(n) = RootOrder(c)
    BY <1>1, <1>6 DEF None, RootOrder
  <1>8. Base
    BY DEF Tables, Indexed
  <1>9. Admitted(n)
    BY <1>1, <1>4, <1>6, <1>8 DEF Admitted, RootIs
  <1>10. ASSUME NEW x \in Intents PROVE Together(x, n) /\ Together(n, x)
    <2>1. IsPromotion(x) /\ RootOrder(x) = RootOrder(n) /\ x \in journal
      BY <1>7 DEF Intents
    <2>2. x.attempt \in Nat /\ x.attempt <= tail.attempt
      BY <1>1, <1>7, <2>1
    <2>3. x.attempt # n.attempt
      <3>1. PICK m \in Nat : m = tail.attempt
        BY <1>1
      <3>2. x.attempt \in Nat /\ x.attempt <= m /\ n.attempt = m + 1
        BY <1>6, <2>2, <3>1
      <3> QED BY <3>2
    <2> QED BY <1>4, <2>1, <2>3 DEF Together
  <1>11. VisiblePath(n.target)
    BY <1>1, <1>6
  <1>12. Chained(n, c, p, id)
    BY <1>4, <1>6, <1>7, <1>9, <1>10, <1>11 DEF Chained
  <1> QED BY <1>12 DEF n

(***************************************************************************)
(* What has the name of a conflict file moves on.                          *)
(***************************************************************************)
LEMMA CollisionPreserved ==
    ASSUME Tables, Worlds, NEW a \in Intents, IsPromotion(a), Exists(a.target), tree[a.target].kind = "File",
           PreserveCollision(a), scenario' = scenario
    PROVE  LET n == NextOfChain(a, a.target, tree[a.target].id) IN
           /\ Tables' /\ State = "applying" /\ journal' = journal \cup {n} /\ Intents' = Intents \cup {n} /\ pending' = pending
           /\ rows' = rows /\ recoveries' = recoveries /\ links' = links /\ index' = index
           /\ tree' = tree /\ lastId' = lastId /\ run' = run
  <1> DEFINE n == NextOfChain(a, a.target, tree[a.target].id)
  <1>1. a \in journal /\ Base /\ a.phase = "pre_base"
    BY DEF Intents, Tables, Phases, Types, JournalTypes, RowOK
  <1>2. State = "applying"
    BY <1>1 DEF Tables, Phases
  <1>3. \A x \in Intents : IsPromotion(x) /\ RootOrder(x) = RootOrder(a)
    BY DEF Tables, IntentsTogether, Together, IsPromotion
  <1>4. HasId(tree, a.target, tree[a.target].id)
    BY DEF HasId, Exists
  <1>5. /\ Admitted(n) /\ n.op = "rename" /\ \A x \in Intents : Together(x, n) /\ Together(n, x)
    <2>1. Chained(n, a, a.target, tree[a.target].id)
      BY <1>1, <1>2, <1>3, <1>4, NextOfChainOK
    <2> QED BY <2>1 DEF Chained
  <1>6. db' = [db EXCEPT !.journal = journal \cup {n}] /\ UNCHANGED <<fs, run>>
    BY DEF PreserveCollision, Intend, Tx, Put, NextOfChain, ChainRow
  <1> HIDE DEF n
  <1>7. DbIs(journal \cup {n}, pending, rows, recoveries, links, index)
    BY <1>6, Transactions DEF Tables
  <1>8. lastId' = lastId /\ lastId \in Nat /\ tree' = tree
    BY <1>6 DEF fs, Worlds
  <1>9. Tables' /\ Intents' = Intents \cup {n}
    BY <1>5, <1>7, <1>8, AdmitOnly
  <1> QED BY <1>2, <1>6, <1>7, <1>8, <1>9 DEF DbIs, n

(***************************************************************************)
(* The row a link names.                                                   *)
(***************************************************************************)
LEMMA CurrentRow ==
    ASSUME Tables, Base, NEW s \in DOMAIN links, links[s].rollback = None
    PROVE  /\ CurrentIs(s, CurrentOf(s)) /\ CurrentOf(s) \in journal /\ IsPromotion(CurrentOf(s)) /\ RowOK(CurrentOf(s))
           /\ CurrentOf(s) = Row(links[s].current)
  <1>1. PICK a : CurrentIs(s, a)
    BY DEF Tables, Linked, Away
  <1>2. CurrentOf(s) = a
    BY <1>1, RowIs DEF Tables, Types, CurrentIs, CurrentOf
  <1> QED BY <1>1, <1>2 DEF CurrentIs, CurrentOf, Tables, Types, JournalTypes

(* The tables after a new row and a change of the link of s.               *)
Relinked(l, s) == \A z \in DOMAIN l : z # s => z \in DOMAIN links /\ l[z] = links[z]
LEMMA LinkAdmitted ==
    ASSUME Tables, Intents = {}, NEW n, Admitted(n), scenario' = scenario, lastId' = lastId, lastId \in Nat,
           NEW l, NEW s \in DOMAIN l, s \in Sources, LinkOK(l[s]), DOMAIN l = DOMAIN links \cup {s}, Relinked(l, s),
           DbIs(journal \cup {n}, pending, rows, recoveries, l, index),
           Base, State \notin {"none", "pending"},
           \/ n.op # "restore" /\ IsPromotion(n) /\ State = "applying" /\ l[s].current = NextOrder /\ l[s].rollback = None
              /\ \A p \in DOMAIN recoveries : recoveries[p].completed
           \/ n.op = "restore" /\ State = "rolling_back" /\ s \in DOMAIN links /\ links[s].rollback = None
              /\ l[s].current = links[s].current /\ l[s].rollback = NextOrder
    PROVE  Tables' /\ Intents' = {n}
  <1> USE DEF Tables
  <1>0. journal' = journal \cup {n} /\ pending' = pending /\ rows' = rows /\ recoveries' = recoveries /\ links' = l
        /\ index' = index /\ DOMAIN db' = DbFields /\ State' = State /\ Base' = Base
    BY DEF DbIs, State, Base
  <1>1. /\ n \notin journal /\ Intents' = {n}
        /\ JournalTypes' /\ PendingTypes' /\ IntentsTogether' /\ Unstarted' /\ Phases' /\ Roots'
    BY <1>0, Admit
  <1>2. LinksTypes'
    <2>1. \A z \in DOMAIN l : LinkOK(l[z]) /\ z \in Sources
      BY DEF Types, LinksTypes, Relinked
    <2>2. Sources' = Sources
      BY Grown DEF Types
    <2>3. \A x : LinkOK(x)' <=> LinkOK(x)
      BY DEF LinkOK
    <2> QED BY <1>0, <2>1, <2>2, <2>3 DEF LinksTypes
  <1>3. Types'
    BY <1>0, <1>1, <1>2, Framed
  <1>4. Indexed'
    <2>1. index \notin {"none", "gone"}
      BY DEF Base
    <2> QED BY <1>0, <2>1, Grown DEF Indexed, Base
  <1>5. Creations'
    BY <1>0 DEF Creations, CreationOf
  <1>6. \A a \in journal : a.order < NextOrder /\ a.order \in Nat
    BY NextOrderIs DEF Types, JournalTypes, RowOK
  <1>7. NextOrder \in Nat \ {0} /\ n.order = NextOrder /\ n.state = "intent"
    BY NextOrderIs DEF Types, Admitted
  <1>8. Linked'
    <2>1. ASSUME NEW z \in DOMAIN l, z # s, NEW a, CurrentIs(z, a) PROVE CurrentIs(z, a)'
      BY <1>0, <2>1 DEF CurrentIs, Relinked
    <2>2. ASSUME NEW z \in DOMAIN l, z # s, NEW a, RestoreIs(z, a) PROVE RestoreIs(z, a)'
      BY <1>0, <2>2 DEF RestoreIs, Relinked
    <2>3. CASE /\ n.op # "restore" /\ IsPromotion(n) /\ State = "applying" /\ l[s].current = NextOrder /\ l[s].rollback = None
               /\ \A p \in DOMAIN recoveries : recoveries[p].completed
      <3>1. CurrentIs(s, n)'
        BY <1>0, <1>7, <2>3 DEF CurrentIs
      <3>2. \A z \in DOMAIN links : links[z].rollback = None /\ Away(z)
        BY <2>3 DEF Linked, Away
      <3>3. \A z \in DOMAIN l : z # s => \E a : CurrentIs(z, a)'
        BY <2>1, <3>2 DEF Linked, Relinked
      <3>4. \A z \in DOMAIN l : l[z].rollback = None
        BY <2>3, <3>2 DEF Relinked
      <3> QED BY <1>0, <2>3, <3>1, <3>3, <3>4 DEF Linked
    <2>4. CASE /\ n.op = "restore" /\ State = "rolling_back" /\ s \in DOMAIN links /\ links[s].rollback = None
               /\ l[s].current = links[s].current /\ l[s].rollback = NextOrder
      <3>1. RestoreIs(s, n)'
        BY <1>0, <1>7, <2>4 DEF RestoreIs
      <3>2. PICK c : CurrentIs(s, c)
        BY <2>4 DEF Linked, Away
      <3>3. CurrentIs(s, c)'
        BY <1>0, <2>4, <3>2 DEF CurrentIs
      <3>4. \A z \in DOMAIN links : links[z].rollback # None => \E a : RestoreIs(z, a)
        BY <2>4 DEF Linked
      <3>5. \A z \in DOMAIN l : l[z].rollback # None => \E a : RestoreIs(z, a)'
        BY <2>2, <3>1, <3>4 DEF Relinked
      <3>6. ASSUME NEW z \in DOMAIN l, z # s, Away(z)' PROVE \E a : CurrentIs(z, a)'
        <4>1. z \in DOMAIN links /\ l[z] = links[z]
          BY <3>6 DEF Relinked
        <4>2. Away(z)
          <5>1. CASE l[z].rollback = None
            BY <4>1, <5>1 DEF Away
          <5>2. CASE l[z].rollback # None
            <6>1. PICK a : RestoreIs(z, a)' /\ a.state = "intent"
              BY <1>0, <3>6, <5>2 DEF Away
            <6>2. PICK b : RestoreIs(z, b)
              BY <3>4, <4>1, <5>2
            <6>3. b \in journal /\ b.order = l[z].rollback /\ a \in journal \cup {n} /\ a.order = l[z].rollback /\ a.op = "restore"
              BY <1>0, <4>1, <6>1, <6>2 DEF RestoreIs
            <6>4. a # n
              BY <1>6, <1>7, <6>3
            <6>5. RestoreIs(z, a)
              BY <4>1, <6>3, <6>4 DEF RestoreIs
            <6> QED BY <4>1, <6>1, <6>5 DEF Away
          <5> QED BY <5>1, <5>2
        <4>3. PICK a : CurrentIs(z, a)
          BY <4>1, <4>2 DEF Linked
        <4> QED BY <2>1, <3>6, <4>3
      <3> QED BY <1>0, <2>4, <3>3, <3>5, <3>6 DEF Linked
    <2> QED BY <2>3, <2>4
  <1> QED BY <1>1, <1>3, <1>4, <1>5, <1>8

(***************************************************************************)
(* A finite set of paths can be listed with the deepest first.             *)
(***************************************************************************)
Lists(S, f) == /\ f \in [1 .. Cardinality(S) -> S] /\ IsInjective(f)
               /\ \A i, j \in DOMAIN f : i < j => Len(f[i]) >= Len(f[j])

LEMMA Extendable ==
    ASSUME NEW T, IsFiniteSet(T), T \subseteq Path, NEW d \in T, \A x \in T : Len(d) <= Len(x),
           NEW g, Lists(T \ {d}, g)
    PROVE  \E f : Lists(T, f)
  <1>1. PICK n \in Nat : n = Cardinality(T)
    BY FS_CardinalityType
  <1>2. n # 0 /\ Cardinality(T \ {d}) = n - 1
    BY <1>1, FS_RemoveElement, FS_EmptySet
  <1>3. g \in [1 .. n - 1 -> T \ {d}] /\ IsInjective(g) /\ \A i, j \in 1 .. n - 1 : i < j => Len(g[i]) >= Len(g[j])
    BY <1>2 DEF Lists
  <1> DEFINE f == [i \in 1 .. n |-> IF i = n THEN d ELSE g[i]]
  <1>4. DOMAIN f = 1 .. n /\ f[n] = d /\ \A i \in 1 .. n - 1 : f[i] = g[i]
    BY <1>2
  <1>5. f \in [1 .. n -> T]
    <2>1. \A i \in 1 .. n : f[i] \in T
      BY <1>3, <1>4
    <2> QED BY <2>1
  <1> HIDE DEF f
  <1>6. \A i \in 1 .. n : i = n \/ i \in 1 .. n - 1
    BY <1>1
  <1>7. \A i \in 1 .. n - 1 : g[i] \in T /\ g[i] # d
    BY <1>3
  <1>8. \A i, j \in 1 .. n - 1 : g[i] = g[j] => i = j
    BY <1>3 DEF IsInjective
  <1>9. IsInjective(f)
    BY <1>4, <1>6, <1>7, <1>8 DEF IsInjective
  <1>10. ASSUME NEW i \in 1 .. n, NEW j \in 1 .. n, i < j PROVE Len(f[i]) >= Len(f[j])
    <2>1. i \in 1 .. n - 1
      BY <1>10
    <2>2. CASE j = n
      <3>1. Len(d) <= Len(f[i]) /\ f[i] \in Path /\ d \in Path /\ f[j] = d
        BY <1>4, <1>7, <2>1, <2>2
      <3>2. Len(d) \in Nat /\ Len(f[i]) \in Nat
        BY <3>1 DEF Path
      <3> QED BY <3>1, <3>2
    <2>3. CASE j # n
      BY <1>3, <1>4, <1>6, <1>10, <2>1, <2>3
    <2> QED BY <2>2, <2>3
  <1>11. Lists(T, f)
    BY <1>1, <1>4, <1>5, <1>9, <1>10 DEF Lists
  <1> QED BY <1>11

LEMMA DeepestFirstIs ==
    ASSUME NEW S, IsFiniteSet(S), S \subseteq Path
    PROVE  Lists(S, DeepestFirst(S))
  <1> DEFINE Bad == {T \in SUBSET S : ~ \E f : Lists(T, f)}
             N == {Cardinality(T) : T \in Bad}
  <1>1. \A T \in Bad : IsFiniteSet(T) /\ Cardinality(T) \in Nat /\ Cardinality(T) <= Cardinality(S)
    BY FS_Subset, FS_CardinalityType
  <1>2. Bad = {}
    <2> SUFFICES ASSUME Bad # {} PROVE FALSE
      OBVIOUS
    <2>1. Cardinality(S) \in Nat
      BY FS_CardinalityType
    <2>2. N \subseteq Nat /\ N # {} /\ \A x \in N : x <= Cardinality(S)
      BY <1>1
    <2>3. \A T \in Bad : Cardinality(T) \in N
      OBVIOUS
    <2>4. \A x \in N : \E T \in Bad : Cardinality(T) = x
      OBVIOUS
    <2> HIDE DEF N
    <2>5. IsFiniteSet(N)
      BY <2>1, <2>2, FS_BoundedSetOfNaturals
    <2>6. Min(N) \in N /\ \A x \in N : Min(N) <= x
      BY <2>2, <2>5, MinOfNats
    <2>7. PICK T \in Bad : Cardinality(T) = Min(N)
      BY <2>4, <2>6
    <2>8. T \subseteq S /\ IsFiniteSet(T) /\ T \subseteq Path /\ ~ \E f : Lists(T, f)
      BY <1>1, <2>7
    <2>9. CASE T = {}
      <3>1. Cardinality(T) = 0
        BY <2>9, FS_EmptySet
      <3> DEFINE f == [i \in {} |-> i]
      <3>2. f \in [1 .. Cardinality(T) -> T] /\ DOMAIN f = {}
        BY <3>1, <2>9
      <3>3. Lists(T, f)
        BY <3>2 DEF Lists, IsInjective
      <3> QED BY <2>8, <3>3
    <2>10. CASE T # {}
      <3> DEFINE L == {Len(x) : x \in T}
      <3>0. \A x \in T : Len(x) \in Nat
        BY <2>8 DEF Path
      <3>1. L \subseteq Nat /\ L # {} /\ \A x \in T : Len(x) \in L
        BY <2>10, <3>0
      <3>2. IsFiniteSet(L)
        <4> DEFINE h == [x \in T |-> Len(x)]
        <4>1. h \in Surjection(T, L)
          BY DEF Surjection
        <4> HIDE DEF h, L
        <4> QED BY <2>8, <4>1, FS_Surjection
      <3>3. \A y \in L : \E x \in T : Len(x) = y
        OBVIOUS
      <3> HIDE DEF L
      <3>4. PICK d \in T : Len(d) = Min(L)
        BY <3>1, <3>2, <3>3, MinOfNats
      <3>5. \A x \in T : Len(d) <= Len(x)
        <4>1. \A y \in L : Min(L) <= y
          BY <3>1, <3>2, MinOfNats
        <4> QED BY <3>1, <3>4, <4>1
      <3>6. Cardinality(T \ {d}) = Cardinality(T) - 1 /\ Cardinality(T) \in Nat
        BY <2>8, FS_RemoveElement, FS_CardinalityType
      <3>7. Cardinality(T \ {d}) \notin N
        <4>1. ~ (Min(N) <= Cardinality(T \ {d}))
          BY <2>7, <3>6
        <4> QED BY <2>6, <4>1
      <3>8. T \ {d} \in SUBSET S /\ T \ {d} \notin Bad
        BY <2>3, <2>8, <3>7
      <3>9. PICK g : Lists(T \ {d}, g)
        BY <3>8
      <3>10. \E f : Lists(T, f)
        BY <2>8, <3>5, <3>9, Extendable
      <3> QED BY <2>8, <3>10
    <2> QED BY <2>9, <2>10
  <1>3. \E f : Lists(S, f)
    BY <1>2
  <1>4. \E f \in [1 .. Cardinality(S) -> S] : IsInjective(f) /\ \A i, j \in DOMAIN f : i < j => Len(f[i]) >= Len(f[j])
    BY <1>3 DEF Lists
  <1> QED BY <1>4 DEF DeepestFirst, Lists

LEMMA TreeIsFinite ==
    ASSUME Worlds
    PROVE  IsFiniteSet(DOMAIN tree)
  <1> DEFINE f == [p \in DOMAIN tree |-> tree[p].id]
  <1>1. lastId \in Nat /\ IsFiniteSet(1 .. lastId)
    BY FS_Interval DEF Worlds
  <1>2. f \in Injection(DOMAIN tree, 1 .. lastId)
    BY DEF Worlds, WellFormed, Injection, IsInjective
  <1> HIDE DEF f
  <1> QED BY <1>1, <1>2, FS_Injection

(***************************************************************************)
(* The removals of a plan.                                                 *)
(***************************************************************************)
PlannedRow(q, i) == [Removal("post_base", q, tree[q].id) EXCEPT !.order = NextOrder + i - 1]
LEMMA PlannedRowOK ==
    ASSUME Worlds, JournalTypes, NEW q \in DOMAIN tree, q # <<>>, NEW i \in Nat \ {0}
    PROVE  /\ RowOK(PlannedRow(q, i)) /\ PlannedRow(q, i).order = NextOrder + i - 1 /\ PlannedRow(q, i).op = "remove"
           /\ PlannedRow(q, i).phase = "post_base" /\ PlannedRow(q, i).origin = None /\ ~ IsPromotion(PlannedRow(q, i))
           /\ PlannedRow(q, i).state = "intent" /\ PlannedRow(q, i).path = q /\ PlannedRow(q, i).kind = tree[q].kind
           /\ PlannedRow(q, i).id = tree[q].id
           /\ PlannedRow(q, i).shape = IF tree[q].kind = "File" THEN Shape(tree, q) ELSE NoShape
           /\ ~ Preserving(PlannedRow(q, i))
  <1> DEFINE a == Removal("post_base", q, tree[q].id)
             r == PlannedRow(q, i)
             o == NextOrder + i - 1
  <1>1. RowIsOf(a, "remove", "post_base", q, <<>>, tree[q].kind, tree[q].id,
                IF tree[q].kind = "File" THEN Shape(tree, q) ELSE NoShape, NoStamp, None, 0, "")
    BY RowsAre
  <1>2. r = [a EXCEPT !.order = o]
    BY DEF PlannedRow
  <1>3. q \in Path /\ tree[q].kind \in Kinds /\ tree[q].id \in 0 .. lastId /\ <<>> \in Path
    BY ObjectIs, RootIsPath
  <1>4. o \in Nat \ {0}
    <2>1. NextOrder \in Nat \ {0}
      BY NextOrderIs
    <2> QED BY <2>1
  <1> HIDE DEF a, r, o
  <1>5. DOMAIN r = RowFields
    BY <1>1, <1>2 DEF RowIsOf, RowFields
  <1>6. r.order = o /\ r.op = "remove" /\ r.phase = "post_base" /\ r.path = q /\ r.target = <<>> /\ r.kind = tree[q].kind
        /\ r.id = tree[q].id /\ r.origin = None /\ r.outcome = "" /\ r.state = "intent"
        /\ r.shape = IF tree[q].kind = "File" THEN Shape(tree, q) ELSE NoShape
    BY <1>1, <1>2 DEF RowIsOf, RowFields
  <1>7. r.attempt = 0
    BY <1>1, <1>2 DEF RowIsOf, RowFields
  <1>8. ~ Plain(r) /\ ~ IsPromotion(r) /\ ~ Preserving(r)
    BY <1>6 DEF Plain, IsPromotion, Preserving
  <1>9. r.origin \in Nat /\ r.attempt \in Nat
    <2>1. None \in Nat /\ 0 \in Nat
      BY DEF None
    <2> QED BY <1>6, <1>7, <2>1
  <1>10. RowOK(r)
    BY <1>3, <1>4, <1>5, <1>6, <1>7, <1>8, <1>9 DEF RowOK
  <1> QED BY <1>6, <1>8, <1>10 DEF r, o

LEMMA RemovalPlanned ==
    ASSUME Tables, Worlds, Intents = {}, ~ Base, NEW p, VisiblePath(p), scenario' = scenario, lastId' = lastId,
           db' = RemovalPlan(p)
    PROVE  /\ Tables' /\ pending' = pending /\ rows' = rows /\ recoveries' = recoveries /\ links' = links /\ index' = index
           /\ \A a \in Intents' : \E q \in Under(tree, TombstoneName(p)), i \in Nat \ {0} : a = PlannedRow(q, i)
  <1> DEFINE S == Under(tree, TombstoneName(p))
             all == DeepestFirst(S)
             R == {PlannedRow(all[i], i) : i \in DOMAIN all}
  <1>1. S \subseteq DOMAIN tree /\ <<>> \notin S
    <2>1. TombstoneName(p) \in Path /\ TombstoneName(p) # <<>> /\ <<>> \in Path
      BY InternalIs, RootIsPath DEF TombstoneName, InternalForms
    <2>2. ~ IsPrefix(TombstoneName(p), <<>>)
      <3>1. Len(TombstoneName(p)) \in Nat \ {0} /\ Len(<<>>) = 0
        BY <2>1, ParentIs
      <3> QED BY <2>1, <3>1, PrefixIs
    <2> QED BY <2>2 DEF Under
  <1>2. IsFiniteSet(S) /\ S \subseteq Path
    BY <1>1, TreeIsFinite, FS_Subset DEF Worlds, WellFormed
  <1>3. DOMAIN db = DbFields
    BY DEF Tables, Types, DbFields
  <1>4. db' = [db EXCEPT !.journal = journal \cup R]
    BY DEF RemovalPlan, PlannedRow, journal
  <1> HIDE DEF S
  <1>5. all \in [1 .. Cardinality(S) -> S] /\ Cardinality(S) \in Nat
    BY <1>2, DeepestFirstIs, FS_CardinalityType DEF Lists
  <1>6. DOMAIN all = 1 .. Cardinality(S) /\ \A i \in 1 .. Cardinality(S) : all[i] \in S /\ i \in Nat \ {0}
    BY <1>5
  <1> HIDE DEF all
  <1>7. IsFiniteSet(R)
    <2> DEFINE f == [i \in DOMAIN all |-> PlannedRow(all[i], i)]
    <2>1. f \in Surjection(DOMAIN all, R)
      BY DEF Surjection
    <2>2. IsFiniteSet(DOMAIN all)
      BY <1>5, <1>6, FS_Interval
    <2> HIDE DEF f, R
    <2> QED BY <2>1, <2>2, FS_Surjection
  <1>8. \A a \in R : \E i \in Nat \ {0} : \E q \in S : a = PlannedRow(q, i)
    BY <1>6
  <1>9. JournalTypes
    BY DEF Tables, Types
  <1>10. \A a \in R : /\ RowOK(a) /\ a.op = "remove" /\ a.phase = "post_base" /\ a.origin = None /\ ~ IsPromotion(a)
                      /\ a.state = "intent" /\ a.order >= NextOrder /\ a.order \in Nat
    <2> TAKE a \in R
    <2>1. PICK i \in Nat \ {0}, q \in S : a = PlannedRow(q, i)
      BY <1>8
    <2>2. /\ RowOK(a) /\ a.order = NextOrder + i - 1 /\ a.op = "remove"
          /\ a.phase = "post_base" /\ a.origin = None /\ ~ IsPromotion(a) /\ a.state = "intent"
      BY <1>1, <1>9, <2>1, PlannedRowOK
    <2>3. NextOrder \in Nat
      BY <1>9, NextOrderIs
    <2>4. a.order >= NextOrder /\ a.order \in Nat
      BY <2>2, <2>3
    <2> QED BY <2>2, <2>4
  <1>11. \A a, c \in R : a.order = c.order => a = c
    <2> SUFFICES ASSUME NEW i \in 1 .. Cardinality(S), NEW j \in 1 .. Cardinality(S),
                        PlannedRow(all[i], i).order = PlannedRow(all[j], j).order
                 PROVE  i = j
      BY <1>6
    <2>1. PlannedRow(all[i], i).order = NextOrder + i - 1 /\ PlannedRow(all[j], j).order = NextOrder + j - 1
      BY <1>1, <1>6, <1>9, PlannedRowOK
    <2>2. PICK k \in Nat : k = NextOrder
      BY <1>9, NextOrderIs
    <2>3. k + i - 1 = k + j - 1
      BY <2>1, <2>2
    <2> QED BY <2>2, <2>3
  <1> HIDE DEF R
  <1>12. DbIs(journal \cup R, pending, rows, recoveries, links, index)
    BY <1>4, Transactions DEF Tables
  <1>13. \A a \in journal : a.order < NextOrder /\ a.order \in Nat
    BY <1>9, NextOrderIs DEF JournalTypes, RowOK
  <1>14. \A a \in journal, c \in R : a.order # c.order
    <2> TAKE a \in journal, c \in R
    <2>1. NextOrder \in Nat
      BY <1>9, NextOrderIs
    <2>2. a.order < NextOrder /\ a.order \in Nat /\ c.order >= NextOrder /\ c.order \in Nat
      BY <1>10, <1>13
    <2> QED BY <2>1, <2>2
  <1>15. JournalTypes'
    <2>1. IsFiniteSet(journal \cup R)
      BY <1>7, <1>9, FS_Union DEF JournalTypes
    <2>2. \A a \in journal \cup R : RowOK(a)'
      BY <1>9, <1>10, Grown DEF JournalTypes, Tables, Worlds
    <2>3. \A a, c \in journal \cup R : a.order = c.order => a = c
      BY <1>9, <1>11, <1>14 DEF JournalTypes
    <2> QED BY <1>12, <2>1, <2>2, <2>3 DEF JournalTypes, DbIs
  <1>16. Intents' = R
    BY <1>10, <1>12 DEF Intents, DbIs
  <1>17. lastId \in Nat
    BY DEF Worlds
  <1>18. Types'
    BY <1>12, <1>15, <1>17, Framed DEF DbIs
  <1>19. IntentsTogether' /\ Phases'
    BY <1>10, <1>12, <1>16 DEF IntentsTogether, Together, Phases, DbIs, Base
  <1>20. Unstarted' /\ Indexed'
    BY <1>12, <1>17, Framed DEF Unstarted, Base, DbIs
  <1>21. Roots'
    <2>1. State # "applying"
      BY DEF Tables, Indexed
    <2> QED BY <1>12, <2>1 DEF Roots, State, DbIs
  <1>22. Creations'
    BY <1>12 DEF Tables, Creations, CreationOf, DbIs, State, Base
  <1>23. Linked'
    BY <1>12 DEF Tables, Linked, DbIs, Base, Indexed, State
  <1> QED BY <1>8, <1>12, <1>16, <1>18, <1>19, <1>20, <1>21, <1>22, <1>23 DEF Tables, DbIs, S

-----------------------------------------------------------------------------
(***************************************************************************)
(* Where a rename takes what lies at or below its source.  InTemp: the     *)
(* path runs through a temporary name; Unseen: where a path of the         *)
(* recovery area would be outside it; OutAt: at its hidden place or        *)
(* outside the recovery area; NotAt: neither at a row's path nor at its    *)
(* rollback name, hidden or not.                                           *)
(***************************************************************************)
InTemp(p) == \E i \in DOMAIN p : p[i][1] = "temp"
Unseen(q) == IF q # <<>> /\ q[1][1] = "recovery" THEN <<q[1][2]>> \o Tail(q) ELSE q
OutAt(s, q) == q = HiddenAt(s) \/ (q # <<>> /\ q[1][1] # "recovery")
NotAt(t, q) == Unseen(q) # t /\ Unseen(q) # RollbackName(t)

(***************************************************************************)
(* Execution: moves.                                                       *)
(***************************************************************************)
LEMMA LandsLike ==
    ASSUME NEW p \in Path, p # <<>>, NEW q \in Path, q # <<>>, Parent(q) = Parent(p), NEW r \in Path, IsPrefix(p, r)
    PROVE  LET y == Landing(p, q, r) IN
           /\ y \in Path /\ Len(y) = Len(r) /\ Len(p) \in 1 .. Len(r) /\ Len(q) = Len(p) /\ DOMAIN y = 1 .. Len(r) /\ DOMAIN r = 1 .. Len(r)
           /\ \A i \in 1 .. Len(r) : i # Len(p) => y[i] = r[i]
           /\ y[Len(p)] = Last(q) /\ r[Len(p)] = Last(p)
  <1> DEFINE y == Landing(p, q, r)
             s == Rest(p, r)
  <1>1. /\ s \in Path /\ Len(s) = Len(r) - Len(p) /\ \A i \in 1 .. Len(r) - Len(p) : s[i] = r[Len(p) + i]
    BY RestIs
  <1>2. y = q \o s
    BY DEF Landing
  <1>3. /\ Len(p) \in Nat \ {0} /\ Len(q) \in Nat \ {0} /\ Len(q) = Len(p) /\ Last(p) = p[Len(p)] /\ Last(q) = q[Len(q)]
        /\ \A i \in 1 .. Len(p) - 1 : q[i] = p[i]
    <2>1. Len(Parent(p)) = Len(p) - 1 /\ Len(p) \in Nat \ {0} /\ Last(p) = p[Len(p)] /\ \A i \in 1 .. Len(p) - 1 : Parent(p)[i] = p[i]
      BY ParentIs
    <2>2. Len(Parent(q)) = Len(q) - 1 /\ Len(q) \in Nat \ {0} /\ Last(q) = q[Len(q)] /\ \A i \in 1 .. Len(q) - 1 : Parent(q)[i] = q[i]
      BY ParentIs
    <2> QED BY <2>1, <2>2
  <1>4. Len(p) <= Len(r) /\ \A i \in 1 .. Len(p) : p[i] = r[i]
    BY PrefixIs
  <1>5. Len(r) \in Nat /\ DOMAIN r = 1 .. Len(r)
    BY DEF Path
  <1> HIDE DEF s, y
  <1>a. /\ q \o s \in Path /\ Len(q \o s) = Len(q) + Len(s) /\ (\A i \in 1 .. Len(q) : (q \o s)[i] = q[i])
        /\ \A i \in 1 .. Len(s) : (q \o s)[Len(q) + i] = s[i]
    BY <1>1, ConcatIs
  <1>6. /\ y \in Path /\ Len(y) = Len(q) + Len(s) /\ (\A i \in 1 .. Len(q) : y[i] = q[i])
        /\ \A i \in 1 .. Len(s) : y[Len(q) + i] = s[i]
    BY <1>2, <1>a
  <1>7. Len(y) = Len(r) /\ DOMAIN y = 1 .. Len(r)
    BY <1>1, <1>3, <1>4, <1>5, <1>6 DEF Path
  <1>8. ASSUME NEW i \in 1 .. Len(r), i # Len(p) PROVE y[i] = r[i]
    <2>1. CASE i < Len(p)
      <3>1. i \in 1 .. Len(p) - 1 /\ i \in 1 .. Len(p) /\ i \in 1 .. Len(q)
        BY <1>3, <1>5, <1>8, <2>1
      <3> QED BY <1>3, <1>4, <1>6, <3>1
    <2>2. CASE i > Len(p)
      <3>1. PICK j \in 1 .. Len(s) : i = Len(q) + j /\ i = Len(p) + j
        <4> DEFINE j == i - Len(p)
        <4>1. j \in 1 .. Len(s) /\ i = Len(q) + j /\ i = Len(p) + j
          BY <1>1, <1>3, <1>5, <1>8, <2>2
        <4> HIDE DEF j
        <4> QED BY <4>1
      <3>2. j \in 1 .. Len(r) - Len(p)
        BY <1>1, <3>1
      <3>3. y[Len(q) + j] = s[j] /\ s[j] = r[Len(p) + j]
        BY <1>1, <1>6, <3>1, <3>2
      <3> QED BY <3>1, <3>3
    <2> QED BY <1>3, <1>5, <1>8, <2>1, <2>2
  <1>9. y[Len(p)] = Last(q) /\ r[Len(p)] = Last(p)
    BY <1>3, <1>4, <1>6
  <1>10. Len(p) \in 1 .. Len(r)
    BY <1>3, <1>4, <1>5
  <1> QED BY <1>3, <1>5, <1>6, <1>7, <1>8, <1>9, <1>10 DEF y

LEMMA FileAlone ==
    ASSUME Worlds, NEW p \in Path, IsFile(tree, p), NEW q \in Path, NEW r \in DOMAIN tree, IsPrefix(p, r)
    PROVE  r = p /\ Landing(p, q, r) = q
  <1>1. r \in Path /\ WellFormed(tree, lastId)
    BY DEF Worlds, WellFormed
  <1>2. r = p
    <2>1. r # p => IsDir(tree, p)
      BY <1>1 DEF WellFormed
    <2> QED BY <2>1 DEF IsDir, IsFile
  <1>3. Rest(p, p) \in Path /\ Len(Rest(p, p)) = 0
    <2>1. IsPrefix(p, p) /\ Len(p) \in Nat
      BY PrefixOrder DEF Path
    <2> QED BY <2>1, RestIs
  <1>4. Rest(p, p) = <<>>
    BY <1>3 DEF Path
  <1> QED BY <1>2, <1>4, ConcatIs DEF Landing

(***************************************************************************)
(* Where the moves of a rename end.                                        *)
(***************************************************************************)
LEMMA RenameLands ==
    ASSUME NEW p \in Path, p # <<>>, NEW q \in Path, q # <<>>, Parent(q) = Parent(p), ~ IsTemp(q), NEW r \in Path, IsPrefix(p, r)
    PROVE  LET y == Landing(p, q, r) IN
           /\ InTemp(y) => InTemp(r)
           /\ IsTemp(p) => InTemp(r)
           /\ \A s : IsTemp(p) /\ Last(q)[1] \in VisibleForms /\ VisiblePath(s) /\ OutAt(s, r) => OutAt(s, y)
  <1> DEFINE y == Landing(p, q, r)
  <1>1. /\ y \in Path /\ Len(y) = Len(r) /\ Len(p) \in 1 .. Len(r) /\ DOMAIN y = 1 .. Len(r) /\ DOMAIN r = 1 .. Len(r)
        /\ \A i \in 1 .. Len(r) : i # Len(p) => y[i] = r[i]
        /\ y[Len(p)] = Last(q) /\ r[Len(p)] = Last(p)
    BY LandsLike
  <1> HIDE DEF y
  <1>2. Last(q)[1] # "temp"
    BY DEF IsTemp
  <1>3. InTemp(y) => InTemp(r)
    BY <1>1, <1>2 DEF InTemp
  <1>4. IsTemp(p) => InTemp(r)
    BY <1>1 DEF InTemp, IsTemp
  <1>a. Len(p) # 1 => Len(p) \in 2 .. Len(r)
    <2>1. Len(r) \in Nat /\ Len(p) \in 1 .. Len(r)
      BY <1>1 DEF Path
    <2>2. \A n \in Nat : \A k \in 1 .. n : k # 1 => k \in 2 .. n
      OBVIOUS
    <2> QED BY <2>1, <2>2
  <1>5. ASSUME NEW s, IsTemp(p), Last(q)[1] \in VisibleForms, VisiblePath(s), OutAt(s, r) PROVE OutAt(s, y)
    <2>1. Len(r) \in Nat \ {0} /\ 1 \in 1 .. Len(r) /\ Len(p) \in Nat \ {0} /\ y # <<>> /\ r # <<>>
      <3>1. Len(r) \in Nat /\ Len(y) \in Nat
        BY <1>1 DEF Path
      <3>2. Len(p) \in Nat \ {0} /\ Len(r) # 0
        BY <1>1, <3>1
      <3>3. y # <<>> /\ r # <<>>
        BY <1>1, <3>2
      <3> QED BY <3>1, <3>2, <3>3
    <2>2. r # HiddenAt(s)
      <3> SUFFICES ASSUME r = HiddenAt(s) PROVE FALSE
        OBVIOUS
      <3>1. /\ s \in Path /\ Len(r) = Len(s) /\ r[1] = <<"recovery", s[1], 0>> /\ \A i \in 2 .. Len(s) : r[i] = s[i]
        BY <1>5, HiddenAtIs, VisibleIs
      <3>2. \A i \in 1 .. Len(s) : s[i] \in VisibleLeaf
        BY <1>5 DEF VisiblePath
      <3>3. r[Len(p)][1] = "temp"
        BY <1>1, <1>5 DEF IsTemp
      <3>4. CASE Len(p) = 1
        BY <3>1, <3>3, <3>4
      <3>5. CASE Len(p) # 1
        <4>1. Len(p) \in 2 .. Len(s)
          <5>1. Len(p) \in 2 .. Len(r)
            BY <1>a, <3>5
          <5> QED BY <3>1, <5>1
        <4>2. Len(p) \in 1 .. Len(s)
          BY <1>1, <3>1
        <4>3. s[Len(p)][1] = "temp" /\ s[Len(p)] \in VisibleLeaf
          BY <3>1, <3>2, <3>3, <4>1, <4>2
        <4> QED BY <4>3 DEF VisibleLeaf, VisibleForms
      <3> QED BY <3>4, <3>5
    <2>3. r[1][1] # "recovery"
      BY <1>5, <2>2 DEF OutAt
    <2>4. CASE Len(p) = 1
      <3>1. y[1] = Last(q)
        BY <1>1, <2>4
      <3> QED BY <1>5, <2>1, <3>1 DEF OutAt, VisibleForms
    <2>5. CASE Len(p) # 1
      <3>1. y[1] = r[1]
        BY <1>1, <2>1, <2>5
      <3> QED BY <2>1, <2>3, <3>1 DEF OutAt
    <2> QED BY <2>4, <2>5
  <1> QED BY <1>3, <1>4, <1>5 DEF y

(* A path with another first name.                                         *)
LEMMA Reheaded ==
    ASSUME NEW r \in Path, r # <<>>, NEW l \in Leaf, NEW y \in Path, Len(y) = Len(r), y[1] = l,
           \A i \in 1 .. Len(r) : i # 1 => y[i] = r[i]
    PROVE  <<l>> \o Tail(r) = y
  <1> DEFINE b == Tail(r)
             h == <<l>>
  <1>0. Len(r) \in Nat \ {0} /\ r \in Seq(Leaf)
    BY DEF Path
  <1>1. b \in Seq(Leaf) /\ Len(b) = Len(r) - 1 /\ \A i \in 1 .. Len(b) : b[i] = r[i + 1]
    BY <1>0
  <1>2. h \in Seq(Leaf) /\ Len(h) = 1 /\ h[1] = l
    OBVIOUS
  <1> HIDE DEF b, h
  <1>3. /\ h \o b \in Seq(Leaf) /\ Len(h \o b) = Len(r) /\ (h \o b)[1] = l
        /\ \A i \in 1 .. Len(b) : (h \o b)[1 + i] = b[i]
    <2>1. h \in Path /\ b \in Path
      BY <1>1, <1>2 DEF Path
    <2>2. /\ h \o b \in Path /\ Len(h \o b) = Len(h) + Len(b) /\ (\A i \in 1 .. Len(h) : (h \o b)[i] = h[i])
          /\ \A i \in 1 .. Len(b) : (h \o b)[Len(h) + i] = b[i]
      BY <2>1, ConcatIs
    <2>3. 1 \in 1 .. Len(h) /\ 1 + (Len(r) - 1) = Len(r)
      BY <1>0, <1>2
    <2> QED BY <1>1, <1>2, <2>2, <2>3 DEF Path
  <1>4. \A i \in 1 .. Len(r) : (h \o b)[i] = y[i]
    <2> SUFFICES ASSUME NEW i \in 1 .. Len(r) PROVE (h \o b)[i] = y[i]
      OBVIOUS
    <2>1. CASE i = 1
      BY <1>3, <2>1
    <2>2. CASE i # 1
      <3> DEFINE j == i - 1
      <3>1. j \in 1 .. Len(b) /\ 1 + j = i /\ j + 1 = i
        BY <1>0, <1>1, <2>2
      <3> HIDE DEF j
      <3>2. (h \o b)[1 + j] = b[j] /\ b[j] = r[j + 1]
        BY <1>1, <1>3, <3>1
      <3> QED BY <2>2, <3>1, <3>2
    <2> QED BY <2>1, <2>2
  <1>5. h \o b = y
    BY <1>3, <1>4, SeqEqual DEF Path
  <1> QED BY <1>5 DEF h, b

(* A captured object goes back to its visible name.                        *)
LEMMA UncoverLands ==
    ASSUME NEW q, VisiblePath(q), Len(q) = 1, NEW r \in Path, IsPrefix(RecoveryName(q), r), NEW t, NotAt(t, r)
    PROVE  NotAt(t, Landing(RecoveryName(q), q, r))
  <1> DEFINE p == RecoveryName(q)
             y == Landing(p, q, r)
  <1>1. p \in Path /\ p # <<>> /\ Len(p) = 1 /\ Parent(p) = Parent(q) /\ Last(p) = <<"recovery", Last(q), 0>> /\ q \in Path /\ q # <<>>
    <2>1. q \in Path /\ q # <<>>
      BY VisibleIs
    <2>2. "recovery" \in InternalForms /\ 0 \in Nat /\ p = Internal(q, "recovery", 0)
      BY DEF RecoveryName, InternalForms
    <2> HIDE DEF p, y
    <2>3. /\ p \in Path /\ p # <<>> /\ Len(p) = Len(q) /\ Parent(p) = Parent(q)
          /\ Last(p) = <<"recovery", Last(q), 0>>
      BY <2>2, InternalIs
    <2> QED BY <2>1, <2>3
  <1>a. p \in Path /\ p # <<>> /\ q \in Path /\ q # <<>> /\ Parent(q) = Parent(p) /\ IsPrefix(p, r)
    BY <1>1
  <1> HIDE DEF p
  <1>2. /\ y \in Path /\ Len(y) = Len(r) /\ 1 \in 1 .. Len(r) /\ DOMAIN y = 1 .. Len(r) /\ DOMAIN r = 1 .. Len(r)
        /\ \A i \in 1 .. Len(r) : i # 1 => y[i] = r[i]
        /\ y[1] = Last(q) /\ r[1] = <<"recovery", Last(q), 0>>
    <2>2. /\ y \in Path /\ Len(y) = Len(r) /\ Len(p) \in 1 .. Len(r) /\ DOMAIN y = 1 .. Len(r) /\ DOMAIN r = 1 .. Len(r)
          /\ \A i \in 1 .. Len(r) : i # Len(p) => y[i] = r[i]
          /\ y[Len(p)] = Last(q) /\ r[Len(p)] = Last(p)
      BY <1>a, LandsLike
    <2> QED BY <1>1, <2>2
  <1>3. Last(q) \in VisibleLeaf
    BY VisibleIs
  <1> HIDE DEF y
  <1>4. r # <<>> /\ y # <<>> /\ Len(r) \in Nat \ {0} /\ r \in Seq(Leaf)
    <2>1. Len(r) \in Nat /\ Len(r) # 0
      BY <1>2 DEF Path
    <2> QED BY <1>2, <2>1 DEF Path
  <1>5. Unseen(r) = <<Last(q)>> \o Tail(r)
    BY <1>2, <1>4 DEF Unseen
  <1>6. <<Last(q)>> \o Tail(r) = y
    <2>1. Last(q) \in Leaf
      BY <1>1, ParentIs
    <2> QED BY <1>2, <1>4, <2>1, Reheaded
  <1>7. Unseen(y) = y
    BY <1>2, <1>3 DEF Unseen, VisibleLeaf, VisibleForms
  <1> QED BY <1>5, <1>6, <1>7 DEF NotAt, y, p

(* A directory goes to its rollback name.                                  *)
LEMMA UninstallLands ==
    ASSUME NEW p, VisiblePath(p), NEW r \in Path, IsPrefix(p, r), r # p, NEW t, VisiblePath(t)
    PROVE  NotAt(t, Landing(p, RollbackName(p), r))
  <1> DEFINE q == RollbackName(p)
             y == Landing(p, q, r)
  <1>a. q \in Path /\ q # <<>> /\ Parent(q) = Parent(p) /\ Last(q)[1] = "rollback"
    BY InternalIs DEF RollbackName, InternalForms
  <1>b. p \in Path /\ p # <<>> /\ p[1] \in VisibleLeaf
    BY VisibleIs
  <1> HIDE DEF q
  <1>1. /\ q \in Path /\ q # <<>> /\ Parent(q) = Parent(p) /\ Last(q)[1] = "rollback" /\ p \in Path /\ p # <<>>
        /\ p[1] \in VisibleLeaf
    BY <1>a, <1>b
  <1>2. /\ y \in Path /\ Len(y) = Len(r) /\ Len(p) \in 1 .. Len(r) /\ DOMAIN y = 1 .. Len(r) /\ DOMAIN r = 1 .. Len(r)
        /\ \A i \in 1 .. Len(r) : i # Len(p) => y[i] = r[i]
        /\ y[Len(p)] = Last(q)
    BY <1>1, LandsLike
  <1> HIDE DEF y
  <1>3. Len(r) \in Nat /\ Len(p) \in Nat \ {0} /\ Len(p) < Len(r) /\ y # <<>>
    <2>1. Len(r) \in Nat /\ Len(p) \in Nat \ {0} /\ Len(r) # 0
      BY <1>2 DEF Path
    <2>2. /\ Rest(p, r) \in Path /\ Len(Rest(p, r)) = Len(r) - Len(p) /\ p \o Rest(p, r) = r
          /\ (Rest(p, r) = <<>> => p \o Rest(p, r) = p)
      BY <1>1, RestIs, ConcatIs
    <2>3. Len(Rest(p, r)) # 0
      BY <2>2 DEF Path
    <2> QED BY <1>2, <2>1, <2>2, <2>3
  <1>4. Unseen(y) = y
    <2>1. CASE Len(p) = 1
      BY <1>1, <1>2, <2>1 DEF Unseen
    <2>2. CASE Len(p) # 1
      <3>1. y[1] = r[1] /\ r[1] = p[1]
        <4>1. 1 \in 1 .. Len(r) /\ 1 \in 1 .. Len(p)
          BY <1>2, <1>3
        <4> QED BY <1>1, <1>2, <2>2, <4>1, PrefixIs
      <3> QED BY <1>1, <3>1 DEF Unseen, VisibleLeaf, VisibleForms
    <2> QED BY <2>1, <2>2
  <1>5. y # t
    <2>1. y = t => Last(q) \in VisibleLeaf
      BY <1>2 DEF VisiblePath
    <2> QED BY <1>1, <2>1 DEF VisibleLeaf, VisibleForms
  <1>6. y # RollbackName(t)
    <2> SUFFICES ASSUME y = RollbackName(t) PROVE FALSE
      OBVIOUS
    <2>1. /\ Len(y) = Len(t) /\ y \in Path /\ y # <<>> /\ Parent(y) = Parent(t) /\ t \in Path /\ t # <<>>
      BY InternalIs, VisibleIs DEF RollbackName, InternalForms
    <2>2. y[Len(p)] = t[Len(p)]
      <3>1. /\ \A i \in 1 .. Len(y) - 1 : Parent(y)[i] = y[i]
            /\ \A i \in 1 .. Len(t) - 1 : Parent(t)[i] = t[i]
        BY <2>1, ParentIs
      <3>2. Len(p) \in 1 .. Len(y) - 1 /\ Len(p) \in 1 .. Len(t) - 1
        BY <1>2, <1>3, <2>1
      <3> QED BY <2>1, <3>1, <3>2
    <2>3. t[Len(p)] \in VisibleLeaf
      <3>1. Len(p) \in 1 .. Len(t)
        BY <1>2, <2>1
      <3> QED BY <3>1 DEF VisiblePath
    <2> QED BY <1>1, <1>2, <2>2, <2>3 DEF VisibleLeaf, VisibleForms
  <1> QED BY <1>4, <1>5, <1>6 DEF NotAt, y, q

(***************************************************************************)
(* Installed paths: what the rollback removes is the client's.             *)
(***************************************************************************)
LEMMA RollbackIs ==
    ASSUME NEW p, VisiblePath(p)
    PROVE  RollbackName(p)[1][1] # "recovery" /\ RollbackName(p) # <<>> /\ RollbackName(p) \in Path
  <1> DEFINE b == RollbackName(p)
  <1>1. /\ b \in Path /\ b # <<>> /\ Len(b) = Len(p) /\ Parent(b) = Parent(p) /\ Last(b)[1] = "rollback"
    BY InternalIs DEF RollbackName, InternalForms
  <1>2. p \in Path /\ p # <<>> /\ p[1] \in VisibleLeaf
    BY VisibleIs
  <1> HIDE DEF b
  <1>3. Len(p) \in Nat \ {0} /\ (\A i \in 1 .. Len(p) - 1 : Parent(p)[i] = p[i]) /\ (\A i \in 1 .. Len(b) - 1 : Parent(b)[i] = b[i])
        /\ Last(b) = b[Len(b)]
    BY <1>1, <1>2, ParentIs
  <1>4. CASE Len(p) = 1
    BY <1>1, <1>3, <1>4 DEF b
  <1>5. CASE Len(p) # 1
    <2>1. b[1] = p[1]
      BY <1>1, <1>3, <1>5
    <2> QED BY <1>1, <1>2, <2>1 DEF b, VisibleLeaf, VisibleForms
  <1> QED BY <1>4, <1>5

(***************************************************************************)
(* A captured file is promoted: nobody else holds it.                      *)
(***************************************************************************)
LEMMA SameHidden ==
    ASSUME NEW s, VisiblePath(s), NEW z, VisiblePath(z), HiddenAt(s) = HiddenAt(z)
    PROVE  s = z
  <1>1. Len(s) = Len(z) /\ s \in Path /\ z \in Path /\ Len(s) \in Nat /\ Len(s) # 0
    <2>1. s # <<>> /\ s \in Path /\ z \in Path
      BY VisibleIs
    <2> QED BY <2>1, HiddenAtIs DEF Path
  <1>2. s[1] = z[1]
    <2>1. <<"recovery", s[1], 0>> = <<"recovery", z[1], 0>>
      BY HiddenAtIs
    <2> QED BY <2>1
  <1>3. \A i \in 1 .. Len(s) : s[i] = z[i]
    <2> SUFFICES ASSUME NEW i \in 1 .. Len(s), i # 1 PROVE s[i] = z[i]
      BY <1>2
    <2>1. i \in 2 .. Len(s)
      BY <1>1
    <2> QED BY <1>1, <2>1, HiddenAtIs
  <1> QED BY <1>1, <1>3, SeqEqual DEF Path

(***************************************************************************)
(* Execution: a promoted file returns.                                     *)
(***************************************************************************)
LEMMA HiddenPlace ==
    ASSUME NEW s, VisiblePath(s)
    PROVE  /\ HiddenAt(s) \in Path /\ HiddenAt(s) # <<>> /\ Unseen(HiddenAt(s)) = s
           /\ ~ InTemp(HiddenAt(s)) /\ ~ IsTemp(HiddenAt(s))
  <1> DEFINE h == HiddenAt(s)
  <1>1. /\ h \in Path /\ h # <<>> /\ Len(h) = Len(s) /\ h[1] = <<"recovery", s[1], 0>>
        /\ \A i \in 2 .. Len(s) : h[i] = s[i]
    BY HiddenAtIs
  <1>2. s \in Path /\ s # <<>> /\ s[1] \in VisibleLeaf /\ s[1] \in Leaf
    <2>1. s \in Path /\ s # <<>> /\ s[1] \in VisibleLeaf
      BY VisibleIs
    <2> QED BY <2>1 DEF Path
  <1>3. \A i \in 1 .. Len(s) : s[i] \in VisibleLeaf
    BY DEF VisiblePath
  <1> HIDE DEF h
  <1>4. \A i \in 1 .. Len(h) : i # 1 => s[i] = h[i]
    <2>1. \A n \in Nat : \A i \in 1 .. n : i # 1 => i \in 2 .. n
      OBVIOUS
    <2>2. Len(s) \in Nat
      BY <1>2 DEF Path
    <2> QED BY <1>1, <2>1, <2>2
  <1>5. Unseen(h) = s
    <2>1. Unseen(h) = <<s[1]>> \o Tail(h)
      BY <1>1 DEF Unseen
    <2> QED BY <1>1, <1>2, <1>4, <2>1, Reheaded
  <1>6. \A i \in DOMAIN h : h[i][1] # "temp"
    <2> SUFFICES ASSUME NEW i \in DOMAIN h PROVE h[i][1] # "temp"
      OBVIOUS
    <2>1. i \in 1 .. Len(h)
      BY <1>1 DEF Path
    <2>2. CASE i = 1
      BY <1>1, <2>2
    <2>3. CASE i # 1
      BY <1>1, <1>3, <1>4, <2>1, <2>3 DEF VisibleLeaf, VisibleForms
    <2> QED BY <2>2, <2>3
  <1>7. Last(h) = h[Len(h)] /\ Len(h) \in DOMAIN h
    <2>1. Len(h) \in Nat \ {0} /\ Last(h) = h[Len(h)]
      BY <1>1, ParentIs
    <2> QED BY <1>1, <2>1 DEF Path
  <1> QED BY <1>1, <1>5, <1>6, <1>7 DEF InTemp, IsTemp, h

(***************************************************************************)
(* The object that was created for a path.                                 *)
(***************************************************************************)
LEMMA SameInternal ==
    ASSUME NEW p, VisiblePath(p), NEW q, VisiblePath(q), NEW form \in InternalForms, NEW m \in Nat, NEW n \in Nat,
           Internal(p, form, m) = Internal(q, form, n)
    PROVE  p = q
  <1>1. Parent(p) = Parent(q) /\ Last(p) = Last(q)
    <2>1. Parent(p) = Parent(q)
      BY InternalIs
    <2>2. <<form, Last(p), m>> = <<form, Last(q), n>>
      BY InternalIs
    <2>3. Last(p) = Last(q)
      BY <2>2
    <2> QED BY <2>1, <2>3
  <1> QED BY <1>1, SamePath, VisibleIs

-----------------------------------------------------------------------------
(***************************************************************************)
(* The inductive invariant of the control.                                 *)
(***************************************************************************)
IInv == Tables /\ Worlds /\ Control

LEMMA WorldsAfter ==
    ASSUME Worlds, scenario' = scenario, edits' = edits, lastId' \in Nat, lastId' >= lastId, WellFormed(tree', lastId')
    PROVE  Worlds'
  <1>1. scenario \in Scenarios /\ Len(scenario.base) < lastId /\ lastId \in Nat /\ edits \in 0 .. scenario.edits
    BY DEF Worlds
  <1>2. Len(scenario.base) \in Nat
    BY <1>1, BaseIs
  <1>3. Len(scenario.base) < lastId'
    BY <1>1, <1>2
  <1>4. Len(scenario'.base) < lastId' /\ scenario' \in Scenarios /\ edits' \in 0 .. scenario'.edits
    BY <1>1, <1>3
  <1> QED BY <1>4 DEF Worlds

LEMMA WorldsSame ==
    ASSUME Worlds, scenario' = scenario, edits' = edits, UNCHANGED fs
    PROVE  Worlds'
  <1>1. tree' = tree /\ lastId' = lastId /\ lastId \in Nat /\ WellFormed(tree, lastId)
    BY DEF fs, Worlds
  <1> QED BY <1>1, WorldsAfter

(***************************************************************************)
(* A command fails or is killed; the tree may have changed.                *)
(***************************************************************************)
LEMMA Halted ==
    ASSUME IInv, run' = NoRun, db' = db, scenario' = scenario, lastId' >= lastId, Worlds'
    PROVE  IInv'
  <1>1. lastId \in Nat /\ lastId' \in Nat
    BY DEF IInv, Worlds
  <1>2. Tables'
    BY <1>1, SameTables DEF IInv
  <1> QED BY <1>2, AtRest DEF IInv

LEMMA Failed ==
    ASSUME IInv, Fail, scenario' = scenario, edits' = edits
    PROVE  IInv'
  <1>1. Worlds' /\ run' = NoRun /\ db' = db /\ lastId' = lastId /\ lastId \in Nat
    BY WorldsSame DEF IInv, Fail, fs, Worlds
  <1> QED BY <1>1, Halted

(***************************************************************************)
(* The process executes an intent.                                         *)
(***************************************************************************)
First(a) == a \in Intents /\ \A c \in Intents \ {a} : Before(a, c)
LEMMA FirstIs ==
    ASSUME IInv, NEW a, First(a)
    PROVE  /\ a \in journal /\ RowOK(a) /\ a.state = "intent" /\ run.stage \notin QuietStages
           /\ Preserving(a) => Plain(a) /\ ~ IsPromotion(a)
           /\ ~ Preserving(a) => a.outcome = ""
           /\ ~ Preserving(a) => ~ Turned
           /\ a.op # "remove" /\ ~ IsPromotion(a) => Intents = {a}
  <1> USE DEF IInv
  <1>1. a \in journal /\ RowOK(a) /\ a.state = "intent" /\ run.stage \notin QuietStages
    BY DEF First, Intents, Tables, Types, JournalTypes, Control, Stages
  <1>2. \A b \in Intents : Preserving(b) => Plain(b) /\ ~ IsPromotion(b) /\ b.op # "remove"
    BY DEF Intents, Tables, Types, JournalTypes, RowOK, Plain, IsPromotion
  <1>3. a.outcome \in {"", "preserve_unknown"}
    BY <1>1 DEF RowOK
  <1>4. ~ Preserving(a) => ~ Turned
    BY <1>2, Alone DEF Turned, First, Tables
  <1>5. a.op # "remove" /\ ~ IsPromotion(a) => Intents = {a}
    BY Alone DEF First
  <1> QED BY <1>1, <1>2, <1>3, <1>4, <1>5 DEF First, Preserving

LEMMA CompleteStep ==
    ASSUME IInv, run.cmd # "none", NEW a, First(a), Complete(a), WellFormed(tree', lastId), scenario' = scenario, edits' = edits
    PROVE  IInv'
  <1>1. lastId' = lastId /\ lastId \in Nat
    BY DEF Complete, IInv, Worlds
  <1>2. Worlds'
    BY <1>1, WorldsAfter DEF IInv
  <1>3. /\ Tables' /\ Intents' = Intents \ {a}
        /\ pending' = pending /\ rows' = rows /\ recoveries' = recoveries /\ links' = links /\ index' = index
    BY <1>1, Completing DEF Complete, First, IInv
  <1>4. CASE run' = NoRun
    BY <1>2, <1>3, <1>4, AtRest DEF IInv
  <1>5. CASE run' # NoRun
    <2>1. ~ Preserving(a) /\ run' = [run EXCEPT !.acted = FALSE, !.step = IF run.stage = "recover" THEN "start" ELSE "moved"]
      BY <1>5 DEF Complete, Preserving
    <2>2. RunTypes
      BY DEF IInv, Control
    <2>3. run'.cmd = run.cmd /\ run'.stage = run.stage /\ run'.at = run.at /\ run'.acted = FALSE /\ RunTypes'
      BY <2>1, <2>2 DEF RunTypes
    <2>4. Acting'
      BY <2>3 DEF Acting
    <2>5. run.stage \notin QuietStages /\ ~ Turned
      BY <2>1, FirstIs
    <2>6. Applying => State' = "applying"
      BY <1>3, <2>5 DEF IInv, Control, Stages, State
    <2>7. Onwards /\ State' = State
      BY <1>3 DEF Onwards, State
    <2>8. Stages' /\ Places'
      BY <1>3, <2>3, <2>5, <2>6, <2>7, StillThere DEF IInv, Control
    <2> QED BY <1>2, <1>3, <2>3, <2>4, <2>8 DEF IInv, Control
  <1> QED BY <1>4, <1>5

LEMMA DidStep ==
    ASSUME IInv, run.cmd # "none", NEW a, First(a), a.op # "create", NEW t, Did(t), WellFormed(t, lastId),
           scenario' = scenario, edits' = edits
    PROVE  IInv'
  <1>1. tree' = t /\ lastId' = lastId /\ db' = db /\ lastId \in Nat /\ run' = [run EXCEPT !.acted = TRUE]
    BY DEF Did, Call, IInv, Worlds
  <1>2. Worlds'
    BY <1>1, WorldsAfter DEF IInv
  <1>3. Tables' /\ Intents' = Intents
    BY <1>1, SameTables DEF IInv
  <1>4. run'.cmd = run.cmd /\ run'.stage = run.stage /\ run'.at = run.at /\ RunTypes'
    BY <1>1 DEF IInv, Control, RunTypes
  <1>5. run.stage \notin QuietStages /\ a \in Intents
    BY FirstIs DEF First
  <1>6. pending' = pending /\ rows' = rows /\ recoveries' = recoveries /\ links' = links /\ index' = index /\ journal' = journal
    BY <1>1 DEF pending, rows, recoveries, links, index, journal
  <1>7. Onwards /\ State' = State /\ (Turned' <=> Turned)
    BY <1>3, <1>6 DEF Onwards, State, Turned
  <1>8. Applying => State' = "applying" \/ Turned'
    BY <1>7 DEF IInv, Control, Stages
  <1>9. Stages' /\ Places'
    BY <1>4, <1>5, <1>6, <1>7, <1>8, StillThere DEF IInv, Control
  <1>10. Acting'
    <2>1. \A c \in Intents : c.op = "create" => c = a
      <3>1. \A c \in Intents : c.op = "create" => c.op # "remove" /\ ~ IsPromotion(c)
        BY DEF IsPromotion
      <3> QED BY <1>5, <3>1, Alone DEF IInv
    <2>2. \A c \in Intents' : c.op # "create"
      BY <1>3, <2>1
    <2> QED BY <1>3, <1>5, <2>2 DEF Acting
  <1> QED BY <1>2, <1>3, <1>4, <1>9, <1>10 DEF IInv, Control

(* A transaction of the process about its intents.                         *)
LEMMA TxStep ==
    ASSUME IInv, run' = run, run.stage \notin QuietStages, UNCHANGED fs, scenario' = scenario, edits' = edits,
           Tables', DOMAIN rows' = DOMAIN rows, Onwards, links' = links, index' = index,
           State' = State \/ State' = "rolling_back",
           Applying => State' = "applying" \/ Turned', Acting'
    PROVE  IInv'
  <1>1. Worlds'
    BY WorldsSame DEF IInv
  <1>2. RunTypes'
    BY DEF IInv, Control, RunTypes
  <1>3. Stages' /\ Places'
    BY StillThere DEF IInv, Control
  <1> QED BY <1>1, <1>2, <1>3 DEF IInv, Control

(* What can be moved.                                                      *)
LEMMA RenameMovable ==
    ASSUME Worlds, NEW a, RowOK(a), Plain(a), Exists(a.path), ~ Exists(a.target)
    PROVE  Movable(tree, a.path, a.target)
  <1> DEFINE p == a.path
             q == a.target
  <1>1. p \in Path /\ q \in Path /\ p # <<>> /\ q # <<>> /\ Parent(q) = Parent(p) /\ p \in DOMAIN tree /\ q \notin DOMAIN tree
    BY DEF RowOK, Exists
  <1> HIDE DEF p, q
  <1>2. IsPrefix(Parent(p), p) /\ Parent(p) # p /\ Parent(p) \in Path
    BY <1>1, PrefixOfParent, ParentIs
  <1>3. IsDir(tree, Parent(q))
    BY <1>1, <1>2 DEF Worlds, WellFormed
  <1>4. ~ IsPrefix(p, q)
    <2>1. IsPrefix(p, q) => IsPrefix(p, Parent(q))
      BY <1>1, PrefixOfParent
    <2>2. ~ IsPrefix(p, Parent(p))
      BY <1>1, PrefixOfParent
    <2> QED BY <1>1, <2>1, <2>2
  <1>5. Movable(tree, p, q)
    BY <1>1, <1>3, <1>4 DEF Movable
  <1> QED BY <1>5 DEF p, q

LEMMA FileMovable ==
    ASSUME Worlds, NEW p, IsFile(tree, p), NEW q \in Path, ~ Exists(q), IsDir(tree, Parent(q))
    PROVE  Movable(tree, p, q)
  <1>1. p \in Path /\ p \in DOMAIN tree /\ tree[p].kind = "File" /\ q \notin DOMAIN tree /\ p # <<>> /\ <<>> \in DOMAIN tree
    BY ObjectIs DEF IsFile, Worlds, WellFormed, Exists, IsDir
  <1>2. q # <<>>
    BY <1>1
  <1>3. ~ IsPrefix(p, q)
    <2> SUFFICES ASSUME IsPrefix(p, q) PROVE FALSE
      OBVIOUS
    <2>1. p # q
      BY <1>1
    <2>2. IsPrefix(p, Parent(q)) /\ Parent(q) \in DOMAIN tree /\ tree[Parent(q)].kind = "Directory"
      BY <1>1, <1>2, <2>1, PrefixOfParent DEF IsDir
    <2>3. p # Parent(q)
      BY <1>1, <2>2
    <2>4. IsDir(tree, p)
      BY <1>1, <2>2, <2>3 DEF Worlds, WellFormed
    <2> QED BY <1>1, <2>4 DEF IsDir
  <1> QED BY <1>1, <1>2, <1>3 DEF Movable

(***************************************************************************)
(* Each step of an action.                                                 *)
(***************************************************************************)
LEMMA DoneStep ==
    ASSUME IInv, run.cmd # "none", NEW a, First(a), Done(a), scenario' = scenario, edits' = edits
    PROVE  IInv'
  <1>1. Complete(a) /\ WellFormed(tree', lastId)
    BY DEF Done, IInv, Worlds
  <1> QED BY <1>1, CompleteStep

LEMMA RenameKeeps ==
    ASSUME IInv, run.cmd # "none", NEW a, First(a), a.op = "rename", ~ IsPromotion(a), RenameStep(a),
           scenario' = scenario, edits' = edits
    PROVE  IInv'
  <1>1. a \in journal /\ RowOK(a) /\ a.state = "intent" /\ run.stage \notin QuietStages /\ a \in Intents /\ Plain(a)
    BY FirstIs DEF First, Plain, IsPromotion
  <1>2. lastId \in Nat /\ WellFormed(tree, lastId)
    BY DEF IInv, Worlds
  <1>3. CASE Done(a)
    BY <1>3, DoneStep
  <1>4. CASE Expected(a, a.path) /\ ~ Exists(a.target) /\ Did(Moved(tree, a.path, a.target))
    <2>1. Movable(tree, a.path, a.target)
      BY <1>1, <1>4, RenameMovable DEF IInv, Expected
    <2>2. WellFormed(Moved(tree, a.path, a.target), lastId)
      BY <1>2, <2>1, MovedWellFormed
    <2>3. a.op # "create"
      OBVIOUS
    <2> QED BY <1>4, <2>2, <2>3, DidStep
  <1>5. CASE a.outcome = "preserve_unknown" /\ AdvancePreserved(a)
    <2>1. Preserving(a)
      BY <1>5 DEF Preserving
    <2>2. /\ Tables' /\ Turned' /\ State' = State
          /\ Intents' = {NextAside(a)} /\ pending' = pending /\ rows' = rows /\ recoveries' = recoveries /\ links' = links
          /\ index' = index /\ tree' = tree /\ lastId' = lastId /\ run' = run
      BY <1>1, <1>5, AdvancedPreserved DEF Preserving, IInv
    <2>3. NextAside(a).op = "rename"
      BY <1>1, <1>5, NextAsideOK DEF Preserving, IInv, Tables, Types
    <2>4. Acting'
      BY <2>2, <2>3 DEF Acting
    <2>5. Onwards
      BY <2>2 DEF Onwards
    <2> QED BY <1>1, <2>2, <2>4, <2>5, TxStep DEF fs
  <1>6. CASE Fail
    BY <1>6, Failed
  <1> QED BY <1>3, <1>4, <1>5, <1>6 DEF RenameStep

LEMMA RemoveKeeps ==
    ASSUME IInv, run.cmd # "none", NEW a, First(a), a.op = "remove", RemoveStep(a), scenario' = scenario, edits' = edits
    PROVE  IInv'
  <1>1. RowOK(a) /\ a.path # <<>> /\ a.op # "create" /\ ~ Preserving(a)
    BY FirstIs DEF RowOK, Plain
  <1>2. lastId \in Nat /\ WellFormed(tree, lastId)
    BY DEF IInv, Worlds
  <1>3. CASE Done(a)
    BY <1>3, DoneStep
  <1>4. CASE Removable(a) /\ Did(Removed(tree, a.path))
    <2>1. a.path \in DOMAIN tree /\ tree[a.path].kind = a.kind
      BY <1>1, <1>4 DEF Removable, Expected, Exists, Preserving
    <2>2. IsFile(tree, a.path) \/ Empty(tree, a.path)
      BY <1>1, <1>4, <2>1 DEF IsFile, Removable, RowOK, Kinds
    <2>3. WellFormed(Removed(tree, a.path), lastId)
      BY <1>1, <1>2, <2>1, <2>2, RemovedWellFormed
    <2> QED BY <1>1, <1>4, <2>3, DidStep
  <1>5. CASE Fail
    BY <1>5, Failed
  <1> QED BY <1>3, <1>4, <1>5 DEF RemoveStep

LEMMA MtimeKeeps ==
    ASSUME IInv, run.cmd # "none", NEW a, First(a), a.op = "mtime", MtimeStep(a), scenario' = scenario, edits' = edits
    PROVE  IInv'
  <1>1. lastId \in Nat /\ WellFormed(tree, lastId) /\ a.op # "create"
    BY DEF IInv, Worlds
  <1>2. CASE Done(a)
    BY <1>2, DoneStep
  <1>3. CASE Did(Stamped(tree, a.path, a.stamp))
    <2>1. WellFormed(Stamped(tree, a.path, a.stamp), lastId)
      BY <1>1, StampedWellFormed
    <2> QED BY <1>1, <1>3, <2>1, DidStep
  <1>4. CASE Fail
    BY <1>4, Failed
  <1> QED BY <1>2, <1>3, <1>4 DEF MtimeStep

LEMMA RestoreKeeps ==
    ASSUME IInv, run.cmd # "none", NEW a, First(a), a.op = "restore", RestoreStep(a), scenario' = scenario, edits' = edits
    PROVE  IInv'
  <1>1. RowOK(a) /\ ~ Preserving(a) /\ a.kind = "File" /\ a.target \in Path /\ a.op # "create"
    BY FirstIs DEF RowOK, Plain
  <1>2. lastId \in Nat /\ WellFormed(tree, lastId)
    BY DEF IInv, Worlds
  <1>3. CASE Complete(a) /\ tree' = IF a.stamp = NoStamp THEN tree ELSE Stamped(tree, Parent(a.target), a.stamp)
    <2>1. WellFormed(Stamped(tree, Parent(a.target), a.stamp), lastId)
      BY <1>2, StampedWellFormed
    <2>2. WellFormed(tree', lastId)
      BY <1>2, <1>3, <2>1
    <2> QED BY <1>3, <2>2, CompleteStep
  <1>4. CASE Expected(a, a.path) /\ ~ Exists(a.target) /\ IsDir(tree, Parent(a.target)) /\ Did(Moved(tree, a.path, a.target))
    <2>1. IsFile(tree, a.path)
      BY <1>1, <1>4 DEF Expected, IsFile, Exists, Preserving
    <2>2. Movable(tree, a.path, a.target)
      BY <1>1, <1>4, <2>1, FileMovable DEF IInv
    <2>3. WellFormed(Moved(tree, a.path, a.target), lastId)
      BY <1>2, <2>2, MovedWellFormed
    <2> QED BY <1>1, <1>4, <2>3, DidStep
  <1>5. CASE Fail
    BY <1>5, Failed
  <1> QED BY <1>3, <1>4, <1>5 DEF RestoreStep, Require

LEMMA PromotionKeeps ==
    ASSUME IInv, run.cmd # "none", NEW a, First(a), IsPromotion(a), PromotionStep(a), scenario' = scenario, edits' = edits
    PROVE  IInv'
  <1>1. RowOK(a) /\ ~ Preserving(a) /\ a.kind = "File" /\ a.target \in Path /\ a.op # "create" /\ a.op # "restore"
        /\ run.stage \notin QuietStages /\ a \in Intents
    BY FirstIs DEF RowOK, Plain, IsPromotion, First
  <1>2. lastId \in Nat /\ WellFormed(tree, lastId)
    BY DEF IInv, Worlds
  <1>3. CASE Done(a)
    BY <1>3, DoneStep
  <1>4. CASE Expected(a, a.path) /\ ~ Exists(a.target) /\ IsDir(tree, Parent(a.target)) /\ Did(Moved(tree, a.path, a.target))
    <2>1. IsFile(tree, a.path)
      BY <1>1, <1>4 DEF Expected, IsFile, Exists, Preserving
    <2>2. Movable(tree, a.path, a.target)
      BY <1>1, <1>4, <2>1, FileMovable DEF IInv
    <2>3. WellFormed(Moved(tree, a.path, a.target), lastId)
      BY <1>2, <2>2, MovedWellFormed
    <2> QED BY <1>1, <1>4, <2>3, DidStep
  <1>5. CASE Fail
    BY <1>5, Failed
  <1>6. CASE Exists(a.target) /\ tree[a.target].kind = "File" /\ PreserveCollision(a) /\ ~ run.acted
    <2> DEFINE n == NextOfChain(a, a.target, tree[a.target].id)
    <2>1. /\ Tables' /\ State = "applying" /\ journal' = journal \cup {n} /\ Intents' = Intents \cup {n} /\ pending' = pending
          /\ rows' = rows /\ recoveries' = recoveries /\ links' = links /\ index' = index
          /\ tree' = tree /\ lastId' = lastId /\ run' = run
      BY <1>1, <1>6, CollisionPreserved DEF IInv
    <2> HIDE DEF n
    <2>2. Acting' /\ Onwards /\ State' = State
      BY <1>6, <2>1 DEF Acting, Onwards, State
    <2> QED BY <1>1, <2>1, <2>2, TxStep DEF fs
  <1> QED BY <1>3, <1>4, <1>5, <1>6 DEF PromotionStep, PreserveCollision, Require

LEMMA CreateKeeps ==
    ASSUME IInv, run.cmd # "none", NEW a, First(a), a.op = "create", CreateStep(a), scenario' = scenario, edits' = edits
    PROVE  IInv'
  <1>1. RowOK(a) /\ a \in Intents /\ Intents = {a} /\ a.path \in Path /\ a.path # <<>> /\ run.stage \notin QuietStages
        /\ a.kind \in Kinds /\ ~ Preserving(a)
    BY FirstIs DEF RowOK, First, IsTemp, IsPromotion, Plain
  <1>2. lastId \in Nat /\ WellFormed(tree, lastId) /\ RunTypes
    BY DEF IInv, Worlds, Control
  <1>3. CASE Done(a)
    BY <1>3, DoneStep
  <1>4. CASE Fail
    BY <1>4, Failed
  <1>5. CASE run.acted /\ Tx([db EXCEPT !.journal = Replace(a, [a EXCEPT !.id = tree[a.path].id])])
    <2>1. Exists(a.path) /\ tree[a.path].kind = a.kind
      BY <1>1, <1>5 DEF IInv, Control, Acting
    <2>2. tree[a.path].id \in 0 .. lastId
      BY <2>1, ObjectIs DEF IInv, Exists
    <2>3. UNCHANGED fs /\ run' = run /\ lastId' = lastId /\ tree' = tree
      BY <1>5 DEF Tx, fs
    <2> DEFINE n == IdentifiedRow(a, tree[a.path].id)
    <2>4. /\ Tables' /\ Intents' = {n} /\ n.path = a.path /\ n.kind = a.kind
          /\ pending' = pending /\ rows' = rows /\ recoveries' = recoveries /\ links' = links /\ index' = index
      BY <1>1, <1>5, <2>2, <2>3, Identified DEF IInv, Tx
    <2> HIDE DEF n
    <2>5. Acting'
      BY <2>1, <2>3, <2>4 DEF Acting, Exists
    <2>6. Onwards /\ State' = State /\ (Applying => State' = "applying")
      <3>1. ~ Turned
        BY <1>1, FirstIs
      <3> QED BY <2>4, <3>1 DEF Onwards, State, IInv, Control, Stages
    <2> QED BY <1>1, <2>3, <2>4, <2>5, <2>6, TxStep
  <1>6. CASE ~ run.acted /\ RollBackUnknown(a)
    <2>1. /\ Tables' /\ Turned' /\ State' \in {State, "rolling_back"}
          /\ Intents' = {AsideRow(a)} /\ rows' = rows /\ recoveries' = recoveries /\ links' = links /\ index' = index
          /\ tree' = tree /\ lastId' = lastId /\ run' = run
      BY <1>1, <1>6, RolledBackUnknown DEF IInv
    <2>2. Acting' /\ Onwards
      BY <1>6, <2>1 DEF Acting, Onwards
    <2> QED BY <1>1, <2>1, <2>2, TxStep DEF fs
  <1>7. CASE ~ Exists(a.path) /\ IsDir(tree, Parent(a.path)) /\ Create(a)
    <2> DEFINE d == IF a.kind = "File" THEN Blank ELSE Now
               u == Made(tree, a.path, lastId + 1, a.kind, d)
    <2>1. lastId' = lastId + 1 /\ tree' = u /\ db' = db /\ run' = [run EXCEPT !.acted = TRUE]
      BY <1>7 DEF Create
    <2>2. a.path \notin DOMAIN tree
      BY <1>7 DEF Exists
    <2>3. WellFormed(u, lastId + 1)
      BY <1>1, <1>2, <1>7, <2>2, MadeWellFormed
    <2>4. Parent(a.path) # a.path
      BY <1>1, PrefixOfParent
    <2>5. AfterMake(u, tree, a.path, lastId + 1, a.kind, d)
      BY <1>1, <1>2, <2>2, <2>4, MadeIs DEF WellFormed
    <2> HIDE DEF u, d
    <2>6. lastId' \in Nat /\ lastId' >= lastId
      BY <1>2, <2>1
    <2>7. Worlds'
      BY <2>1, <2>3, <2>6, WorldsAfter DEF IInv
    <2>8. Tables' /\ Intents' = Intents
      BY <1>2, <2>1, <2>6, SameTables DEF IInv
    <2>9. pending' = pending /\ rows' = rows /\ recoveries' = recoveries /\ links' = links /\ index' = index /\ journal' = journal
      BY <2>1 DEF pending, rows, recoveries, links, index, journal
    <2>10. RunTypes' /\ run'.cmd = run.cmd /\ run'.stage = run.stage /\ run'.at = run.at /\ run'.acted
      BY <1>2, <2>1 DEF RunTypes
    <2>11. Acting'
      BY <1>1, <2>1, <2>5, <2>8 DEF Acting, AfterMake, Exists
    <2>12. Onwards /\ State' = State /\ (Applying => State' = "applying")
      <3>1. ~ Turned
        BY <1>1, FirstIs
      <3> QED BY <2>9, <3>1 DEF Onwards, State, IInv, Control, Stages
    <2>13. Stages' /\ Places'
      BY <1>1, <2>9, <2>10, <2>12, StillThere DEF IInv, Control
    <2> QED BY <2>7, <2>8, <2>10, <2>11, <2>13 DEF IInv, Control
  <1> QED BY <1>3, <1>4, <1>5, <1>6, <1>7 DEF CreateStep, Require

LEMMA ExecuteKeeps ==
    ASSUME IInv, Execute, scenario' = scenario, edits' = edits
    PROVE  IInv'
  <1> DEFINE a == Current
  <1>1. run.cmd # "none" /\ First(a)
    BY CurrentIntent DEF Execute, IInv, First
  <1>2. a.op \in {"create", "rename", "remove", "mtime", "restore"} /\ (IsPromotion(a) => a.op = "rename")
    BY <1>1, FirstIs DEF RowOK, IsPromotion
  <1>3. /\ a.op = "create" => CreateStep(a)
        /\ a.op = "remove" => RemoveStep(a)
        /\ a.op = "mtime" => MtimeStep(a)
        /\ a.op = "restore" => RestoreStep(a)
        /\ a.op = "rename" /\ IsPromotion(a) => PromotionStep(a)
        /\ a.op = "rename" /\ ~ IsPromotion(a) => RenameStep(a)
    BY DEF Execute
  <1> HIDE DEF a
  <1> QED BY <1>1, <1>2, <1>3, CreateKeeps, RemoveKeeps, MtimeKeeps, RestoreKeeps, PromotionKeeps, RenameKeeps

(***************************************************************************)
(* A stage of a command, with no intent to execute.                        *)
(***************************************************************************)
LEMMA Idle ==
    ASSUME IInv, Intents = {}
    PROVE  ~ Turned /\ run.acted = FALSE /\ (Applying => Base /\ State = "applying")
  <1>1. ~ Turned
    BY DEF Turned
  <1>2. run.acted = FALSE
    BY DEF IInv, Control, RunTypes, Acting
  <1> QED BY <1>1, <1>2 DEF IInv, Control, Stages

LEMMA Busy ==
    ASSUME IInv, run.stage # "idle"
    PROVE  run.cmd # "none"
  BY DEF IInv, Control, RunTypes, NoRun

(* A transaction that leaves the process where it is.                      *)
LEMMA Stayed ==
    ASSUME IInv, Intents = {}, run' = run, run.stage \notin QuietStages, UNCHANGED fs, scenario' = scenario, edits' = edits,
           Tables', DOMAIN rows' = DOMAIN rows, Onwards, index' = index, State' = State,
           Applying => DOMAIN links \subseteq DOMAIN links',
           \A s \in DOMAIN links' : run.stage = "restore" \/ TakingBack =>
               s \in DOMAIN links /\ (links[s].rollback # None => links'[s].rollback # None)
    PROVE  IInv'
  <1>1. Worlds'
    BY WorldsSame DEF IInv
  <1>2. RunTypes'
    BY DEF IInv, Control, RunTypes
  <1>3. Stages' /\ Places'
    BY Idle, StillThere DEF IInv, Control
  <1>4. Acting'
    BY Idle DEF Acting
  <1> QED BY <1>1, <1>2, <1>3, <1>4 DEF IInv, Control

(* An intent is written at such a stage.                                   *)
LEMMA Intended ==
    ASSUME IInv, Intents = {}, run.stage \notin QuietStages, NEW row, Admitted(row), row.op # "restore", Intend(row),
           scenario' = scenario, edits' = edits
    PROVE  IInv'
  <1>1. run' = run /\ UNCHANGED fs /\ lastId' = lastId /\ lastId \in Nat /\ db' = [db EXCEPT !.journal = journal \cup {row}]
    BY DEF Intend, Tx, Put, fs, IInv, Worlds
  <1>2. DbIs(journal \cup {row}, pending, rows, recoveries, links, index)
    BY <1>1, Transactions DEF IInv, Tables
  <1>3. Tables'
    BY <1>1, <1>2, AdmitOnly DEF IInv
  <1>4. DOMAIN rows' = DOMAIN rows /\ Onwards /\ index' = index /\ State' = State /\ links' = links
    BY <1>2 DEF DbIs, Onwards, State
  <1> QED BY <1>1, <1>3, <1>4, Stayed

(* The process goes to another stage.                                      *)
LEMMA Arrived ==
    ASSUME IInv, run.cmd # "none", NEW stage, NEW at \in Nat, Goto(stage, at), UNCHANGED fs,
           scenario' = scenario, edits' = edits
    PROVE  /\ Worlds' /\ RunTypes' /\ Acting' /\ lastId' = lastId /\ lastId \in Nat
           /\ run'.cmd = run.cmd /\ run'.stage = stage /\ run'.at = at
           /\ Entries' = Entries /\ Promote' = Promote /\ Tops' = Tops /\ TargetShape' = TargetShape
           /\ Applying' <=> stage \in ApplyStages /\ run.cmd # "bind"
           /\ TakingBack' <=> stage \in BackStages \/ (stage = "temps" /\ at # 0)
  <1>1. Worlds' /\ lastId' = lastId /\ lastId \in Nat
    BY WorldsSame DEF IInv, fs, Worlds
  <1>2. DOMAIN run = {"cmd", "stage", "at", "acted", "step"}
    BY DEF IInv, Control, RunTypes
  <1>3. DOMAIN run' = DOMAIN run /\ run'.cmd = run.cmd /\ run'.stage = stage /\ run'.at = at /\ run'.acted = FALSE
    BY <1>2 DEF Goto
  <1>4. RunTypes' /\ Acting'
    BY <1>2, <1>3 DEF RunTypes, Acting
  <1>5. Entries' = Entries /\ Promote' = Promote /\ Tops' = Tops /\ TargetShape' = TargetShape
    BY DEF Entries, Promote, Tops, TargetShape
  <1>6. /\ Applying' <=> stage \in ApplyStages /\ run.cmd # "bind"
        /\ TakingBack' <=> stage \in BackStages \/ (stage = "temps" /\ at # 0)
    BY <1>3 DEF Applying, TakingBack
  <1> QED BY <1>1, <1>3, <1>4, <1>5, <1>6

(* It goes there without a transaction.                                    *)
LEMMA Entered ==
    ASSUME IInv, Intents = {}, run.cmd # "none", NEW stage, NEW at \in Nat, Enter(stage, at), scenario' = scenario, edits' = edits
    PROVE  /\ run'.cmd = run.cmd /\ run'.stage = stage /\ run'.at = at /\ Intents' = {} /\ State' = State /\ (Base' <=> Base)
           /\ index' = index /\ journal' = journal
           /\ rows' = rows /\ recoveries' = recoveries /\ links' = links /\ pending' = pending
           /\ Entries' = Entries /\ Promote' = Promote /\ Tops' = Tops /\ TargetShape' = TargetShape
           /\ Applying' <=> stage \in ApplyStages /\ run.cmd # "bind"
           /\ TakingBack' <=> stage \in BackStages \/ (stage = "temps" /\ at # 0)
           /\ Stages' /\ Places' => IInv'
  <1>1. Goto(stage, at) /\ UNCHANGED fs /\ db' = db
    BY DEF Enter
  <1>2. /\ Worlds' /\ RunTypes' /\ Acting' /\ lastId' = lastId /\ lastId \in Nat
        /\ run'.cmd = run.cmd /\ run'.stage = stage /\ run'.at = at
        /\ Entries' = Entries /\ Promote' = Promote /\ Tops' = Tops /\ TargetShape' = TargetShape
        /\ Applying' <=> stage \in ApplyStages /\ run.cmd # "bind"
        /\ TakingBack' <=> stage \in BackStages \/ (stage = "temps" /\ at # 0)
    BY <1>1, Arrived
  <1>3. Tables' /\ Intents' = {}
    BY <1>1, <1>2, SameTables DEF IInv
  <1>4. /\ index' = index /\ journal' = journal /\ rows' = rows /\ recoveries' = recoveries /\ links' = links /\ pending' = pending
        /\ State' = State /\ (Base' <=> Base)
    BY <1>1 DEF index, journal, rows, recoveries, links, pending, State, Base
  <1>5. Stages' /\ Places' => IInv'
    BY <1>2, <1>3 DEF IInv, Control
  <1> QED BY <1>2, <1>3, <1>4, <1>5

(* A command ends with a transaction.                                      *)
LEMMA Ended ==
    ASSUME IInv, run' = NoRun, Tables', UNCHANGED fs, scenario' = scenario, edits' = edits
    PROVE  IInv'
  BY AtRest, WorldsSame DEF IInv

(***************************************************************************)
(* The stages that only hand on to the next one.                           *)
(***************************************************************************)
LEMMA AtIs ==
    ASSUME IInv, NEW stage, At(stage), stage # "idle"
    PROVE  /\ run.stage = stage /\ Intents = {} /\ run.cmd # "none" /\ run.at \in Nat /\ run.at + 1 \in Nat
           /\ scenario \in Scenarios /\ Stages /\ Places /\ Types /\ Tables /\ Worlds
           /\ Applying => Base /\ State = "applying"
  <1>1. run.stage = stage /\ Intents = {} /\ run.at \in Nat /\ Stages /\ Places /\ Types /\ Tables /\ Worlds /\ scenario \in Scenarios
    BY DEF At, IInv, Control, RunTypes, Tables, Worlds
  <1> QED BY <1>1, Busy, Idle

LEMMA PreparedKeeps ==
    ASSUME IInv, Prepared, scenario' = scenario, edits' = edits
    PROVE  IInv'
  <1> DEFINE at == NextItem("Directory", 1)
  <1>1. At("prepare") /\ run.at > Len(Tops) /\ Enter("directories", at)
    BY DEF Prepared
  <1>2. /\ run.stage = "prepare" /\ Intents = {} /\ run.cmd # "none" /\ run.at \in Nat /\ scenario \in Scenarios
        /\ Stages /\ Places /\ Tables /\ (Applying => Base /\ State = "applying")
    BY <1>1, AtIs
  <1>3. at \in Nat \ {0} /\ (at <= Len(Entries) => Entries[at].kind = "Directory")
    BY <1>2, NextItemIs
  <1> HIDE DEF at
  <1>4. /\ run'.cmd = run.cmd /\ run'.stage = "directories" /\ run'.at = at /\ Intents' = {} /\ State' = State /\ (Base' <=> Base)
        /\ index' = index /\ rows' = rows /\ recoveries' = recoveries /\ links' = links
        /\ Entries' = Entries /\ Promote' = Promote /\ Tops' = Tops /\ TargetShape' = TargetShape
        /\ Applying' <=> run.cmd # "bind"
        /\ ~ TakingBack'
        /\ Stages' /\ Places' => IInv'
    BY <1>1, <1>2, <1>3, Entered DEF ApplyStages, BackStages
  <1>5. Applying /\ run.cmd # "bind"
    BY <1>2 DEF Applying, Stages, BindStages, ApplyStages
  <1>6. \A p \in DOMAIN recoveries : recoveries[p].completed
    <2> TAKE p \in DOMAIN recoveries
    <2>1. p \in TopPaths
      BY <1>2 DEF Tables, Types, RecoveriesTypes
    <2>2. PICK i \in 1 .. Len(Tops) : Tops[i].path = p
      BY <1>2, <2>1, TopsAre
    <2>3. Len(Tops) \in Nat
      BY <1>2, TopsAre
    <2>4. i \in 1 .. run.at - 1 /\ i <= Len(Tops)
      BY <1>1, <1>2, <2>2, <2>3
    <2> QED BY <1>2, <2>2, <2>4 DEF Places
  <1>7. Stages'
    BY <1>2, <1>4, <1>5 DEF Stages, QuietStages, BindStages
  <1>8. Places'
    BY <1>2, <1>3, <1>4, <1>5, <1>6 DEF Places, ApplyStages
  <1> QED BY <1>4, <1>7, <1>8

LEMMA DirectoriesInstalledKeeps ==
    ASSUME IInv, DirectoriesInstalled, scenario' = scenario, edits' = edits
    PROVE  IInv'
  <1>1. At("directories") /\ IF run.cmd = "bind" THEN Enter("files", NextItem("File", 1)) ELSE Enter("promote", 1)
    BY DEF DirectoriesInstalled
  <1>2. /\ run.stage = "directories" /\ Intents = {} /\ run.cmd # "none" /\ scenario \in Scenarios
        /\ Stages /\ Places /\ (Applying => Base /\ State = "applying")
    BY <1>1, AtIs
  <1>3. DOMAIN rows = DOMAIN TargetShape
    BY <1>2 DEF Places, ApplyStages
  <1>4. CASE run.cmd = "bind"
    <2> DEFINE at == NextItem("File", 1)
    <2>1. at \in Nat \ {0} /\ (at <= Len(Entries) => Entries[at].kind = "File")
      BY <1>2, NextItemIs
    <2>2. Enter("files", at)
      BY <1>1, <1>4
    <2> HIDE DEF at
    <2>3. /\ run'.cmd = run.cmd /\ run'.stage = "files" /\ run'.at = at /\ Intents' = {}
          /\ index' = index /\ rows' = rows /\ Entries' = Entries /\ TargetShape' = TargetShape
          /\ ~ Applying' /\ ~ TakingBack'
          /\ Stages' /\ Places' => IInv'
      BY <1>2, <1>4, <2>1, <2>2, Entered DEF ApplyStages, BackStages
    <2>4. Stages'
      BY <1>2, <1>4, <2>3 DEF Stages, QuietStages, BindStages
    <2>5. Places'
      BY <1>3, <1>4, <2>1, <2>3 DEF Places, ApplyStages
    <2> QED BY <2>3, <2>4, <2>5
  <1>5. CASE run.cmd # "bind"
    <2>1. Enter("promote", 1)
      BY <1>1, <1>5
    <2>2. /\ run'.cmd = run.cmd /\ run'.stage = "promote" /\ run'.at = 1 /\ Intents' = {} /\ State' = State /\ (Base' <=> Base)
          /\ index' = index /\ rows' = rows /\ recoveries' = recoveries /\ links' = links /\ Promote' = Promote
          /\ TargetShape' = TargetShape /\ ~ TakingBack' /\ Applying'
          /\ Stages' /\ Places' => IInv'
      BY <1>2, <1>5, <2>1, Entered DEF ApplyStages, BackStages
    <2>3. Applying
      BY <1>2, <1>5 DEF Applying, ApplyStages
    <2>4. Stages'
      BY <1>2, <1>5, <2>2, <2>3 DEF Stages, QuietStages, BindStages
    <2>5. Places'
      BY <1>2, <1>3, <2>2, <2>3 DEF Places, ApplyStages
    <2> QED BY <2>2, <2>4, <2>5
  <1> QED BY <1>4, <1>5

LEMMA FilesInstalledKeeps ==
    ASSUME IInv, FilesInstalled, scenario' = scenario, edits' = edits
    PROVE  IInv'
  <1> DEFINE at == LastItem("Directory", Len(Entries))
  <1>1. At("files") /\ Enter("mtimes", at)
    BY DEF FilesInstalled
  <1>2. /\ run.stage = "files" /\ Intents = {} /\ run.cmd # "none" /\ scenario \in Scenarios
        /\ Stages /\ Places /\ (Applying => Base /\ State = "applying")
    BY <1>1, AtIs
  <1>3. at \in Nat /\ at <= Len(Entries) /\ (at # 0 => Entries[at].kind = "Directory")
    BY <1>2, LastItemIs, EntriesAre
  <1> HIDE DEF at
  <1>4. /\ run'.cmd = run.cmd /\ run'.stage = "mtimes" /\ run'.at = at /\ Intents' = {} /\ State' = State /\ (Base' <=> Base)
        /\ index' = index /\ rows' = rows /\ recoveries' = recoveries /\ links' = links /\ Promote' = Promote
        /\ Entries' = Entries /\ TargetShape' = TargetShape
        /\ Applying' <=> run.cmd # "bind"
        /\ ~ TakingBack'
        /\ Stages' /\ Places' => IInv'
    BY <1>1, <1>2, <1>3, Entered DEF ApplyStages, BackStages
  <1>5. Applying <=> run.cmd # "bind"
    BY <1>2 DEF Applying, ApplyStages
  <1>6. Stages'
    BY <1>2, <1>4, <1>5 DEF Stages, QuietStages, BindStages
  <1>7. Places'
    BY <1>2, <1>3, <1>4, <1>5 DEF Places, ApplyStages
  <1> QED BY <1>4, <1>6, <1>7

LEMMA MaterializedKeeps ==
    ASSUME IInv, Materialized, scenario' = scenario, edits' = edits
    PROVE  IInv'
  <1>1. At("mtimes") /\ Enter(IF run.cmd = "bind" THEN "bindscan" ELSE "late2", 1)
    BY DEF Materialized
  <1>2. /\ run.stage = "mtimes" /\ Intents = {} /\ run.cmd # "none" /\ scenario \in Scenarios
        /\ Stages /\ Places /\ (Applying => Base /\ State = "applying")
    BY <1>1, AtIs
  <1>3. Applying <=> run.cmd # "bind"
    BY <1>2 DEF Applying, ApplyStages
  <1>4. DOMAIN rows = DOMAIN TargetShape
    BY <1>2 DEF Places, ApplyStages
  <1>5. /\ run'.cmd = run.cmd /\ run'.stage = (IF run.cmd = "bind" THEN "bindscan" ELSE "late2") /\ run'.at = 1
        /\ Intents' = {} /\ State' = State /\ (Base' <=> Base)
        /\ index' = index /\ rows' = rows /\ recoveries' = recoveries /\ links' = links /\ Promote' = Promote /\ TargetShape' = TargetShape
        /\ Applying' <=> run.cmd # "bind"
        /\ ~ TakingBack'
        /\ Stages' /\ Places' => IInv'
    BY <1>1, <1>2, Entered DEF ApplyStages, BackStages
  <1>6. Stages'
    BY <1>2, <1>3, <1>5 DEF Stages, QuietStages, BindStages
  <1>7. Places'
    BY <1>2, <1>3, <1>4, <1>5 DEF Places, ApplyStages
  <1> QED BY <1>5, <1>6, <1>7

(* A check of the tree before the next stage.                              *)
LEMMA BindScanKeeps ==
    ASSUME IInv, BindScan, scenario' = scenario, edits' = edits
    PROVE  IInv'
  <1>1. At("bindscan") /\ (Fail \/ Enter("bindcommit", 0))
    BY DEF BindScan, Require
  <1>2. run.stage = "bindscan" /\ Intents = {} /\ run.cmd # "none" /\ Stages /\ Places
    BY <1>1, AtIs
  <1>3. CASE Enter("bindcommit", 0)
    <2>1. /\ run'.cmd = run.cmd /\ run'.stage = "bindcommit" /\ run'.at = 0 /\ Intents' = {}
          /\ index' = index /\ rows' = rows /\ TargetShape' = TargetShape
          /\ ~ Applying' /\ ~ TakingBack'
          /\ Stages' /\ Places' => IInv'
      BY <1>2, <1>3, Entered DEF ApplyStages, BackStages
    <2>2. Stages'
      BY <1>2, <2>1 DEF Stages, QuietStages, BindStages
    <2>3. Places'
      BY <1>2, <2>1 DEF Places, ApplyStages
    <2> QED BY <2>1, <2>2, <2>3
  <1> QED BY <1>1, <1>3, Failed

LEMMA ScanTargetKeeps ==
    ASSUME IInv, ScanTarget, scenario' = scenario, edits' = edits
    PROVE  IInv'
  <1>1. At("scan") /\ (Fail \/ Enter("late3", 1))
    BY DEF ScanTarget, Require
  <1>2. /\ run.stage = "scan" /\ Intents = {} /\ run.cmd # "none" /\ Stages /\ Places
        /\ (Applying => Base /\ State = "applying")
    BY <1>1, AtIs
  <1>3. Applying /\ run.cmd # "bind"
    BY <1>2 DEF Applying, ApplyStages, Stages, BindStages
  <1>4. CASE Enter("late3", 1)
    <2>1. /\ run'.cmd = run.cmd /\ run'.stage = "late3" /\ run'.at = 1 /\ Intents' = {} /\ State' = State /\ (Base' <=> Base)
          /\ index' = index /\ rows' = rows /\ recoveries' = recoveries /\ links' = links /\ Promote' = Promote /\ TargetShape' = TargetShape
          /\ Applying' /\ ~ TakingBack'
          /\ Stages' /\ Places' => IInv'
      BY <1>2, <1>3, <1>4, Entered DEF ApplyStages, BackStages
    <2>2. Stages'
      BY <1>2, <1>3, <2>1 DEF Stages, QuietStages, BindStages
    <2>3. Places'
      BY <1>2, <1>3, <2>1 DEF Places, ApplyStages
    <2> QED BY <2>1, <2>2, <2>3
  <1> QED BY <1>1, <1>4, Failed

LEMMA RecheckKeeps ==
    ASSUME IInv, Recheck, scenario' = scenario, edits' = edits
    PROVE  IInv'
  <1>1. At("recheck") /\ (Fail \/ Enter("finalize", 1))
    BY DEF Recheck, Require
  <1>2. /\ run.stage = "recheck" /\ Intents = {} /\ run.cmd # "none" /\ Stages /\ Places
        /\ (Applying => Base /\ State = "applying")
    BY <1>1, AtIs
  <1>3. Applying /\ run.cmd # "bind"
    BY <1>2 DEF Applying, ApplyStages, Stages, BindStages
  <1>4. CASE Enter("finalize", 1)
    <2>1. /\ run'.cmd = run.cmd /\ run'.stage = "finalize" /\ run'.at = 1 /\ Intents' = {} /\ State' = State /\ (Base' <=> Base)
          /\ index' = index /\ rows' = rows /\ recoveries' = recoveries /\ links' = links /\ Promote' = Promote /\ TargetShape' = TargetShape
          /\ Applying' /\ ~ TakingBack'
          /\ Stages' /\ Places' => IInv'
      BY <1>2, <1>3, <1>4, Entered DEF ApplyStages, BackStages
    <2>2. Stages'
      BY <1>2, <1>3, <2>1 DEF Stages, QuietStages, BindStages
    <2>3. Places'
      BY <1>2, <1>3, <2>1 DEF Places, ApplyStages
    <2> QED BY <2>1, <2>2, <2>3
  <1> QED BY <1>1, <1>4, Failed

LEMMA ReconciledKeeps ==
    ASSUME IInv, Reconciled, scenario' = scenario, edits' = edits
    PROVE  IInv'
  <1> DEFINE at == IF run.stage = "late1" THEN NextItem("File", 1) ELSE 1
  <1>1. /\ run.stage \in {"late1", "late2", "late3", "late4"} /\ Intents = {}
        /\ IF run.stage = "late4" THEN Fail ELSE Enter(AfterLate[run.stage], at)
    BY DEF Reconciled, AfterLate
  <1>2. /\ run.cmd # "none" /\ Stages /\ Places /\ (Applying => Base /\ State = "applying") /\ scenario \in Scenarios
    BY <1>1, AtIs DEF At
  <1>3. Applying /\ run.cmd # "bind"
    BY <1>1, <1>2 DEF Applying, ApplyStages, Stages, BindStages
  <1>4. CASE run.stage # "late4"
    <2>1. PICK next \in {"files", "verify", "recheck"} :
             /\ AfterLate[run.stage] = next
             /\ next = "files" <=> run.stage = "late1"
      BY <1>1, <1>4 DEF AfterLate
    <2>2. at \in Nat \ {0} /\ (next = "files" /\ at <= Len(Entries) => Entries[at].kind = "File")
      BY <1>2, <2>1, NextItemIs
    <2>3. Enter(next, at)
      BY <1>1, <1>4, <2>1
    <2> HIDE DEF at
    <2>4. /\ run'.cmd = run.cmd /\ run'.stage = next /\ run'.at = at /\ Intents' = {} /\ State' = State /\ (Base' <=> Base)
          /\ index' = index /\ rows' = rows /\ recoveries' = recoveries /\ links' = links /\ Promote' = Promote /\ TargetShape' = TargetShape /\ Entries' = Entries
          /\ Applying' /\ ~ TakingBack'
          /\ Stages' /\ Places' => IInv'
      BY <1>1, <1>2, <1>3, <2>2, <2>3, Entered DEF ApplyStages, BackStages
    <2>5. Stages'
      BY <1>2, <1>3, <2>4 DEF Stages, QuietStages, BindStages
    <2>6. Places'
      BY <1>1, <1>2, <1>3, <2>2, <2>4 DEF Places, ApplyStages
    <2> QED BY <2>4, <2>5, <2>6
  <1> QED BY <1>1, <1>4, Failed

LEMMA UninstalledKeeps ==
    ASSUME IInv, Uninstalled, scenario' = scenario, edits' = edits
    PROVE  IInv'
  <1>1. At("uninstall") /\ Enter("hidden", 1)
    BY DEF Uninstalled
  <1>2. run.stage = "uninstall" /\ Intents = {} /\ run.cmd # "none" /\ Stages /\ Places
    BY <1>1, AtIs
  <1>3. TakingBack /\ run.cmd # "bind"
    BY <1>2 DEF TakingBack, BackStages, Stages, BindStages
  <1>4. /\ run'.cmd = run.cmd /\ run'.stage = "hidden" /\ run'.at = 1 /\ Intents' = {} /\ State' = State
        /\ index' = index /\ links' = links /\ ~ Applying' /\ TakingBack'
        /\ Stages' /\ Places' => IInv'
    BY <1>1, <1>2, Entered DEF ApplyStages, BackStages
  <1>5. Stages'
    BY <1>2, <1>3, <1>4 DEF Stages, QuietStages
  <1>6. Places'
    BY <1>2, <1>3, <1>4 DEF Places, ApplyStages
  <1> QED BY <1>4, <1>5, <1>6

LEMMA RestoredKeeps ==
    ASSUME IInv, Restored, scenario' = scenario, edits' = edits
    PROVE  IInv'
  <1>1. At("hidden") /\ Enter("root", 0)
    BY DEF Restored
  <1>2. run.stage = "hidden" /\ Intents = {} /\ run.cmd # "none" /\ Stages /\ Places
    BY <1>1, AtIs
  <1>3. TakingBack /\ run.cmd # "bind"
    BY <1>2 DEF TakingBack, BackStages, Stages, BindStages
  <1>4. /\ run'.cmd = run.cmd /\ run'.stage = "root" /\ run'.at = 0 /\ Intents' = {} /\ State' = State
        /\ index' = index /\ links' = links /\ ~ Applying' /\ TakingBack'
        /\ Stages' /\ Places' => IInv'
    BY <1>1, <1>2, Entered DEF ApplyStages, BackStages
  <1>5. Stages'
    BY <1>2, <1>3, <1>4 DEF Stages, QuietStages
  <1>6. Places'
    BY <1>2, <1>3, <1>4 DEF Places, ApplyStages
  <1> QED BY <1>4, <1>5, <1>6

(***************************************************************************)
(* A command begins.                                                       *)
(***************************************************************************)
LEMMA StartKeeps ==
    ASSUME IInv, Start, scenario' = scenario, edits' = edits
    PROVE  IInv'
  <1>1. PICK cmd \in {"bind", "sync", "unbind"} :
           /\ cmd = "bind" => index = "none"
           /\ cmd = "sync" => index \in {"base", "target"}
           /\ run' = [NoRun EXCEPT !.cmd = cmd, !.stage = "recover"]
    BY DEF Start
  <1>2. UNCHANGED fs /\ db' = db /\ lastId' = lastId /\ lastId \in Nat
    BY DEF Start, fs, IInv, Worlds
  <1>3. Worlds' /\ Tables' /\ index' = index
    BY <1>2, WorldsSame, SameTables DEF IInv, index
  <1>4. run' = [cmd |-> cmd, stage |-> "recover", at |-> 0, acted |-> FALSE, step |-> "start"]
    BY <1>1 DEF NoRun
  <1>5. RunTypes' /\ Acting'
    BY <1>4 DEF RunTypes, Acting
  <1>6. Stages'
    BY <1>1, <1>3, <1>4 DEF Stages, Applying, TakingBack, BindStages, ApplyStages, QuietStages, BackStages
  <1>7. Places'
    BY <1>4 DEF Places, Applying, TakingBack, ApplyStages, BackStages
  <1> QED BY <1>3, <1>5, <1>6, <1>7 DEF IInv, Control

(***************************************************************************)
(* What is pending is written.                                             *)
(***************************************************************************)
LEMMA PendingOnly ==
    ASSUME Tables, Intents = {}, scenario' = scenario, lastId' = lastId, lastId \in Nat,
           NEW p, DbIs(journal, p, rows, recoveries, links, index), DOMAIN p = {"state", "stamp"}, index # "target",
           (State \in {"none", "pending"} /\ p.state = "pending") \/ p.state = "rolling_back"
    PROVE  Tables' /\ Intents' = {}
  <1>1. State' = p.state /\ (Base' <=> Base)
    BY DEF DbIs, State, Base
  <1>2. PendingTypes'
    BY <1>1 DEF Tables, Types, PendingTypes, DbIs
  <1>3. JournalTypes' /\ IntentsTogether' /\ Intents' = {} /\ RowsTypes' /\ RecoveriesTypes' /\ LinksTypes' /\ Types'
    BY <1>2, Framed DEF DbIs
  <1>4. Indexed'
    BY <1>1, Grown DEF Tables, Indexed, DbIs
  <1>5. Unstarted' /\ Phases'
    BY <1>1, <1>3 DEF Tables, Unstarted, Phases, DbIs
  <1>6. Creations'
    BY <1>1 DEF Tables, Creations, CreationOf, DbIs
  <1>7. Roots'
    BY <1>1 DEF Roots
  <1>8. Linked'
    <2>1. \A s, a : (CurrentIs(s, a)' <=> CurrentIs(s, a)) /\ (RestoreIs(s, a)' <=> RestoreIs(s, a))
      BY DEF CurrentIs, RestoreIs, DbIs
    <2>2. \A s : Away(s)' <=> Away(s)
      BY <2>1 DEF Away, DbIs
    <2> QED BY <1>1, <2>1, <2>2 DEF Tables, Linked, DbIs
  <1> QED BY <1>3, <1>4, <1>5, <1>6, <1>7, <1>8 DEF Tables

(* Everything of the checkout is gone, or all but what was captured.       *)
LEMMA Emptied ==
    ASSUME Types, Tables, scenario' = scenario, lastId' = lastId, lastId \in Nat, NEW j, NEW c, NEW l, NEW x,
           DbIs(j, NoPending, <<>>, c, l, x), x \in {"none", "base", "target", "gone"},
           j = {} \/ (j = journal /\ Intents = {}),
           (DOMAIN c = {} /\ DOMAIN l = {}) \/ (c = recoveries /\ l = links),
           x \in {"none", "gone"} => DOMAIN l = {} /\ DOMAIN c = {},
           x = "base" => DOMAIN l = {},
           x = "base" => \A a \in j : a.origin = None /\ ~ IsPromotion(a)
    PROVE  Tables' /\ Intents' = {}
  <1>1. /\ journal' = j /\ pending' = NoPending /\ rows' = <<>> /\ recoveries' = c /\ links' = l /\ index' = x
        /\ DOMAIN db' = DbFields
    BY DEF DbIs
  <1>2. State' = "none" /\ (Base' <=> x = "base") /\ DOMAIN rows' = {}
    BY <1>1 DEF State, NoPending, Base
  <1>3. Intents' = {}
    BY <1>1 DEF Intents
  <1>4. PendingTypes'
    BY <1>1, <1>2 DEF PendingTypes, NoPending
  <1>5. JournalTypes'
    <2>1. CASE j = {}
      <3>1. IsFiniteSet({})
        BY FS_EmptySet
      <3> QED BY <1>1, <2>1, <3>1 DEF JournalTypes
    <2>2. CASE j = journal
      BY <1>1, <2>2, Grown DEF Tables, Types, JournalTypes
    <2> QED BY <2>1, <2>2
  <1>6. RowsTypes'
    BY <1>2 DEF RowsTypes
  <1>7. RecoveriesTypes' /\ LinksTypes'
    <2> QED BY <1>1, Grown DEF Types, RecoveriesTypes, LinksTypes, RecoveryOK, LinkOK
  <1>8. Types'
    BY <1>1, <1>4, <1>5, <1>6, <1>7 DEF Types, DbFields
  <1>9. Indexed'
    BY <1>1, <1>2 DEF Indexed
  <1>10. IntentsTogether' /\ Phases'
    BY <1>3 DEF IntentsTogether, Phases
  <1>11. Unstarted'
    BY <1>1, <1>2 DEF Unstarted
  <1>12. Creations' /\ Roots'
    BY <1>2 DEF Creations, Roots
  <1>13. Linked'
    BY <1>1, <1>2 DEF Linked
  <1> QED BY <1>3, <1>8, <1>9, <1>10, <1>11, <1>12, <1>13 DEF Tables

(***************************************************************************)
(* A plan, and the start of one.                                           *)
(***************************************************************************)
Planned == Commit([db EXCEPT !.pending = [NoPending EXCEPT !.state = "pending"]], "rows", 0)

LEMMA PlannedKeeps ==
    ASSUME IInv, Intents = {}, run.cmd # "none", State = "none", Planned, scenario' = scenario, edits' = edits,
           run.cmd = "bind" \/ Base
    PROVE  IInv'
  <1> DEFINE p == [NoPending EXCEPT !.state = "pending"]
  <1>1. p = [state |-> "pending", stamp |-> NoStamp]
    BY DEF NoPending
  <1>2. db' = [db EXCEPT !.pending = p] /\ Goto("rows", 0) /\ UNCHANGED fs
    BY DEF Planned, Commit
  <1> HIDE DEF p
  <1>3. /\ Worlds' /\ RunTypes' /\ Acting' /\ lastId' = lastId /\ lastId \in Nat
        /\ run'.cmd = run.cmd /\ run'.stage = "rows" /\ run'.at = 0 /\ ~ Applying' /\ ~ TakingBack'
    BY <1>2, Arrived DEF ApplyStages, BackStages
  <1>4. Tables /\ Types /\ Stages
    BY DEF IInv, Tables, Control
  <1>5. DbIs(journal, p, rows, recoveries, links, index)
    BY <1>2, <1>4, Transactions
  <1>6. index # "target"
    BY <1>4 DEF Stages, Base
  <1>7. Tables' /\ Intents' = {}
    BY <1>1, <1>3, <1>4, <1>5, <1>6, PendingOnly
  <1>8. State' = "pending" /\ index' = index /\ (Base' <=> Base)
    BY <1>1, <1>5 DEF DbIs, State, Base
  <1>9. Stages'
    BY <1>3, <1>4, <1>7, <1>8 DEF Stages, BindStages
  <1>10. Places'
    BY <1>3 DEF Places, ApplyStages
  <1> QED BY <1>3, <1>7, <1>9, <1>10 DEF IInv, Control

LEMMA PlanKeeps ==
    ASSUME IInv, Intents = {}, run.cmd # "none", State = "none", Plan, scenario' = scenario, edits' = edits
    PROVE  IInv'
  <1>1. Fail \/ (index = "base" /\ Planned)
    BY DEF Plan, Require, Planned
  <1> QED BY <1>1, Failed, PlannedKeeps DEF Base

LEMMA PlanSyncKeeps ==
    ASSUME IInv, PlanSync, scenario' = scenario, edits' = edits
    PROVE  IInv'
  <1>1. At("plan") /\ Plan
    BY DEF PlanSync
  <1>2. run.stage = "plan" /\ Intents = {} /\ run.cmd # "none" /\ Stages
    BY <1>1, AtIs
  <1>3. State = "none"
    BY <1>2 DEF Stages
  <1> QED BY <1>1, <1>2, <1>3, PlanKeeps

LEMMA DispatchKeeps ==
    ASSUME IInv, Dispatch, scenario' = scenario, edits' = edits
    PROVE  IInv'
  <1>1. At("recover")
    BY DEF Dispatch
  <1>2. run.stage = "recover" /\ Intents = {} /\ run.cmd # "none" /\ Stages /\ Tables /\ Types
    BY <1>1, AtIs
  <1>3. run.cmd \in {"bind", "sync", "unbind"} /\ Indexed /\ PendingTypes
    BY <1>2 DEF Stages, Tables, Types
  <1>4. CASE run.cmd = "bind"
    <2>1. IF pending # NoPending THEN Enter("rows", 0) ELSE Fail \/ Planned
      BY <1>4 DEF Dispatch, Require, Planned
    <2>2. CASE pending # NoPending
      <3>1. Enter("rows", 0)
        BY <2>1, <2>2
      <3>2. /\ run'.cmd = run.cmd /\ run'.stage = "rows" /\ run'.at = 0 /\ Intents' = {} /\ index' = index
            /\ ~ Applying' /\ ~ TakingBack' /\ (Stages' /\ Places' => IInv')
        BY <1>2, <3>1, Entered DEF ApplyStages, BackStages
      <3>3. Stages'
        BY <1>2, <1>4, <3>2 DEF Stages, BindStages
      <3>4. Places'
        BY <3>2 DEF Places, ApplyStages
      <3> QED BY <3>2, <3>3, <3>4
    <2>3. CASE pending = NoPending
      <3>1. State = "none"
        BY <2>3 DEF State, NoPending
      <3>2. Fail \/ Planned
        BY <2>1, <2>3
      <3> QED BY <1>2, <1>4, <3>1, <3>2, Failed, PlannedKeeps
    <2> QED BY <2>2, <2>3
  <1>5. CASE run.cmd = "unbind"
    <2>1. Enter("temps", 0)
      BY <1>5 DEF Dispatch
    <2>2. /\ run'.cmd = run.cmd /\ run'.stage = "temps" /\ run'.at = 0 /\ Intents' = {} /\ index' = index
          /\ ~ Applying' /\ ~ TakingBack' /\ (Stages' /\ Places' => IInv')
      BY <1>2, <2>1, Entered DEF ApplyStages, BackStages
    <2>3. Stages'
      BY <1>5, <2>2 DEF Stages
    <2>4. Places'
      BY <2>2 DEF Places, ApplyStages
    <2> QED BY <2>2, <2>3, <2>4
  <1>6. CASE run.cmd = "sync"
    <2>1. /\ State = "none" => Plan
          /\ State = "finalized" => Enter("cleanup", 1)
          /\ State = "rolling_back" => Enter("restore", 1)
          /\ State \in {"pending", "applying"} => Enter("rows", 0)
      BY <1>6 DEF Dispatch, State
    <2>2. index \in {"base", "target"}
      BY <1>2, <1>6 DEF Stages
    <2>3. CASE State = "none"
      <3>1. Plan
        BY <2>1, <2>3 DEF State
      <3> QED BY <1>2, <2>3, <3>1, PlanKeeps
    <2>4. CASE State = "finalized"
      <3>1. Enter("cleanup", 1)
        BY <2>1, <2>4 DEF State
      <3>2. /\ run'.cmd = run.cmd /\ run'.stage = "cleanup" /\ run'.at = 1 /\ Intents' = {} /\ index' = index
            /\ (Base' <=> Base) /\ ~ Applying' /\ ~ TakingBack' /\ (Stages' /\ Places' => IInv')
        BY <1>2, <3>1, Entered DEF ApplyStages, BackStages
      <3>3. ~ Base
        BY <1>3, <2>4 DEF Indexed, Base
      <3>4. Stages'
        BY <1>6, <2>2, <3>2, <3>3 DEF Stages
      <3>5. Places'
        BY <3>2 DEF Places, ApplyStages
      <3> QED BY <3>2, <3>4, <3>5
    <2>5. CASE State = "rolling_back"
      <3>1. Enter("restore", 1)
        BY <2>1, <2>5 DEF State
      <3>2. /\ run'.cmd = run.cmd /\ run'.stage = "restore" /\ run'.at = 1 /\ Intents' = {} /\ index' = index
            /\ State' = State /\ ~ Applying' /\ ~ TakingBack' /\ (Stages' /\ Places' => IInv')
        BY <1>2, <3>1, Entered DEF ApplyStages, BackStages
      <3>3. index # "target"
        BY <1>3, <2>5 DEF Indexed
      <3>4. Stages'
        BY <1>6, <2>2, <2>5, <3>2, <3>3 DEF Stages
      <3>5. Places'
        BY <3>2 DEF Places, ApplyStages
      <3> QED BY <3>2, <3>4, <3>5
    <2>6. CASE State \in {"pending", "applying"}
      <3>1. Enter("rows", 0)
        BY <2>1, <2>6 DEF State
      <3>2. /\ run'.cmd = run.cmd /\ run'.stage = "rows" /\ run'.at = 0 /\ Intents' = {} /\ index' = index
            /\ State' = State /\ (Base' <=> Base) /\ ~ Applying' /\ ~ TakingBack' /\ (Stages' /\ Places' => IInv')
        BY <1>2, <3>1, Entered DEF ApplyStages, BackStages
      <3>3. Base
        BY <1>3, <2>2, <2>6 DEF Indexed, Base
      <3>4. Stages'
        BY <1>6, <2>2, <2>6, <3>2, <3>3 DEF Stages
      <3>5. Places'
        BY <3>2 DEF Places, ApplyStages
      <3> QED BY <3>2, <3>4, <3>5
    <2> QED BY <1>3, <2>3, <2>4, <2>5, <2>6 DEF PendingTypes
  <1> QED BY <1>3, <1>4, <1>5, <1>6

(***************************************************************************)
(* Plain intents.                                                          *)
(***************************************************************************)
Phase(phase) == /\ phase \in {"pre_base", "rollback", "post_base"}
                /\ phase = "pre_base" /\ Base => State = "applying"
                /\ phase = "post_base" => ~ Base

LEMMA RenameIntended ==
    ASSUME IInv, Intents = {}, run.stage \notin QuietStages, NEW phase, Phase(phase), NEW p, NEW q \in Path, NEW id,
           JournalRename(phase, p, q, id), HasId(tree, p, id), p # <<>>, q # <<>>, Parent(q) = Parent(p), ~ IsTemp(q),
           scenario' = scenario, edits' = edits
    PROVE  IInv'
  <1> DEFINE row == RenameRow(phase, p, q, id)
  <1>1. Worlds /\ JournalTypes /\ phase \in {"pre_base", "rollback", "post_base"}
    BY DEF IInv, Tables, Types, Phase
  <1>2. p \in Path
    BY <1>1, ObjectIs DEF HasId
  <1>3. RowOK(row)
    BY <1>1, <1>2, RenameRowOK
  <1>4. RowIsOf(row, "rename", phase, p, q, tree[p].kind, id, NoShape, NoStamp, None, 0, "")
    BY RowsAre
  <1>5. Intend(row)
    BY DEF JournalRename, RenameRow
  <1> HIDE DEF row
  <1>6. row.order = NextOrder /\ row.state = "intent" /\ row.phase = phase /\ row.origin = None /\ row.shape = NoShape /\ row.op = "rename"
    BY <1>4 DEF RowIsOf
  <1>7. Admitted(row)
    BY <1>3, <1>6 DEF Admitted, Phase, IsPromotion
  <1> QED BY <1>5, <1>6, <1>7, Intended

LEMMA MtimeIntended ==
    ASSUME IInv, Intents = {}, run.stage \notin QuietStages, NEW phase, Phase(phase), NEW p, NEW id, NEW stamp,
           JournalMtime(phase, p, id, stamp), HasId(tree, p, id), scenario' = scenario, edits' = edits
    PROVE  IInv'
  <1> DEFINE row == MtimeRow(phase, p, id, stamp)
  <1>1. Worlds /\ JournalTypes /\ phase \in {"pre_base", "rollback", "post_base"}
    BY DEF IInv, Tables, Types, Phase
  <1>3. RowOK(row)
    BY <1>1, MtimeRowOK
  <1>4. RowIsOf(row, "mtime", phase, p, <<>>, tree[p].kind, id, NoShape, stamp, None, 0, "")
    BY RowsAre
  <1>5. Intend(row)
    BY DEF JournalMtime, MtimeRow
  <1> HIDE DEF row
  <1>6. row.order = NextOrder /\ row.state = "intent" /\ row.phase = phase /\ row.origin = None /\ row.op = "mtime"
    BY <1>4 DEF RowIsOf
  <1>7. Admitted(row)
    BY <1>3, <1>6 DEF Admitted, Phase, IsPromotion
  <1> QED BY <1>5, <1>6, <1>7, Intended

LEMMA RemovalIntended ==
    ASSUME IInv, Intents = {}, run.stage \notin QuietStages, NEW phase, Phase(phase), NEW p, p # <<>>, NEW id,
           JournalRemove(phase, p, id), HasId(tree, p, id), scenario' = scenario, edits' = edits
    PROVE  IInv'
  <1> DEFINE row == Removal(phase, p, id)
  <1>1. Worlds /\ JournalTypes /\ phase \in {"pre_base", "rollback", "post_base"}
    BY DEF IInv, Tables, Types, Phase
  <1>2. p \in Path
    BY <1>1, ObjectIs DEF HasId
  <1>3. RowOK(row)
    BY <1>1, <1>2, RemovalRowOK
  <1>4. RowIsOf(row, "remove", phase, p, <<>>, tree[p].kind, id,
                IF tree[p].kind = "File" THEN Shape(tree, p) ELSE NoShape, NoStamp, None, 0, "")
    BY RowsAre
  <1>5. Intend(row)
    BY DEF JournalRemove
  <1> HIDE DEF row
  <1>6. row.order = NextOrder /\ row.state = "intent" /\ row.phase = phase /\ row.origin = None /\ row.op = "remove"
    BY <1>4 DEF RowIsOf
  <1>7. Admitted(row)
    BY <1>3, <1>6 DEF Admitted, Phase, IsPromotion
  <1> QED BY <1>5, <1>6, <1>7, Intended

(***************************************************************************)
(* The target's paths are written.                                         *)
(***************************************************************************)
LEMMA SaveCheckoutPathsKeeps ==
    ASSUME IInv, SaveCheckoutPaths, scenario' = scenario, edits' = edits
    PROVE  IInv'
  <1> DEFINE r == [p \in DOMAIN TargetShape |-> IF p \in DOMAIN rows THEN rows[p] ELSE NewPath]
             stage == IF run.cmd = "bind" THEN "directories"
                      ELSE IF pending.state = "pending" THEN "register" ELSE "prepare"
             at == IF run.cmd = "bind" THEN NextItem("Directory", 1) ELSE 1
  <1>1. At("rows") /\ Goto(stage, at) /\ UNCHANGED fs
    BY DEF SaveCheckoutPaths, Commit
  <1>2. db' = [db EXCEPT !.rows = r]
    BY DEF SaveCheckoutPaths, Commit, rows
  <1>3. run.stage = "rows" /\ Intents = {} /\ run.cmd # "none" /\ Stages /\ Tables /\ Types /\ scenario \in Scenarios
    BY <1>1, AtIs
  <1>4. at \in Nat \ {0} /\ (run.cmd = "bind" /\ at <= Len(Entries) => Entries[at].kind = "Directory") /\ (run.cmd # "bind" => at = 1)
    BY <1>3, NextItemIs
  <1>5. /\ DOMAIN r = DOMAIN TargetShape
        /\ \A p \in DOMAIN r : r[p] = NewPath \/ (p \in DOMAIN rows /\ r[p] = rows[p])
    OBVIOUS
  <1>6. stage \in {"directories", "register", "prepare"} /\ (run.cmd = "bind" <=> stage = "directories")
        /\ (stage = "register" <=> run.cmd # "bind" /\ State = "pending")
    BY DEF State
  <1> HIDE DEF r, stage, at
  <1>7. DbIs(journal, pending, r, recoveries, links, index)
    BY <1>2, <1>3, Transactions
  <1>8. /\ Worlds' /\ RunTypes' /\ Acting' /\ lastId' = lastId /\ lastId \in Nat
        /\ run'.cmd = run.cmd /\ run'.stage = stage /\ run'.at = at
        /\ Entries' = Entries /\ TargetShape' = TargetShape
        /\ Applying' <=> stage \in ApplyStages /\ run.cmd # "bind"
        /\ ~ TakingBack'
    BY <1>1, <1>3, <1>4, <1>6, Arrived DEF BackStages
  <1>9. \A p \in DOMAIN r : PathRowOK(r[p])
    <2>1. PathRowOK(NewPath)
      <3>1. None \in Nat /\ 0 \in 0 .. lastId /\ None = 0
        BY <1>8 DEF None
      <3>2. DOMAIN NewPath = {"temp", "tempId", "targetId", "completed", "tombstone", "create"}
        BY DEF NewPath
      <3> QED BY <3>1, <3>2 DEF NewPath, PathRowOK
    <2> QED BY <1>3, <1>5, <2>1 DEF Types, RowsTypes
  <1>10. SameCreations(r)
    <2>1. NewPath.create = None
      BY DEF NewPath
    <2> QED BY <1>5, <2>1 DEF SameCreations
  <1>11. Tables' /\ Intents' = {}
    BY <1>3, <1>5, <1>7, <1>8, <1>9, <1>10, RowsOnly
  <1>12. rows' = r /\ index' = index /\ State' = State /\ (Base' <=> Base)
    BY <1>7 DEF DbIs, State, Base
  <1>13. Stages'
    BY <1>3, <1>6, <1>8, <1>11, <1>12 DEF Stages, BindStages, ApplyStages
  <1>14. Places'
    BY <1>4, <1>5, <1>6, <1>8, <1>12 DEF Places, ApplyStages
  <1> QED BY <1>8, <1>11, <1>13, <1>14 DEF IInv, Control

(***************************************************************************)
(* The plan of a synchronisation.                                          *)
(***************************************************************************)
Capturing == [p \in {e.path : e \in Range(Tops)} |->
                 [id |-> tree[p].id, shape |-> Shape(tree, p), completed |-> FALSE, tombstone |-> FALSE]]
ApplyingNow == [state |-> "applying", stamp |-> tree[<<>>].data]

LEMMA RegisteredPlan ==
    ASSUME IInv, At("register"), Scan(tree, {}, {}) = BaseShape, DbIs(journal, ApplyingNow, rows, Capturing, links, index),
           scenario' = scenario, lastId' = lastId
    PROVE  Tables' /\ Intents' = {}
  <1>1. Intents = {} /\ Stages /\ Tables /\ Types /\ Worlds /\ scenario \in Scenarios /\ lastId \in Nat /\ run.stage = "register"
    BY AtIs DEF Worlds
  <1>2. Base /\ State = "pending"
    BY <1>1 DEF Stages
  <1>3. /\ journal' = journal /\ pending' = ApplyingNow /\ rows' = rows /\ recoveries' = Capturing /\ links' = links
        /\ index' = index /\ DOMAIN db' = DbFields
    BY DEF DbIs
  <1>4. State' = "applying" /\ Base'
    BY <1>2, <1>3 DEF ApplyingNow, State, Base
  <1>5. DOMAIN Capturing = TopPaths /\ \A p \in DOMAIN Capturing : p \in TopPaths /\ Capturing[p] =
            [id |-> tree[p].id, shape |-> Shape(tree, p), completed |-> FALSE, tombstone |-> FALSE]
    BY DEF Capturing, TopPaths
  <1>6. \A p \in TopPaths : p \in DOMAIN tree
    <2>1. \A e \in Range(scenario.base) : e.path \in DOMAIN BaseShape
      BY DEF BaseShape, ShapeOf
    <2>2. \A p \in TopPaths : \E e \in Range(scenario.base) : e.path = p
      BY <1>1, TopsAre
    <2>3. \A p \in DOMAIN Scan(tree, {}, {}) : p \in DOMAIN tree
      BY DEF Scan
    <2> QED BY <2>1, <2>2, <2>3
  <1>7. \A p \in DOMAIN Capturing : RecoveryOK(Capturing[p])
    <2> TAKE p \in DOMAIN Capturing
    <2>1. tree[p].id \in 0 .. lastId
      BY <1>1, <1>5, <1>6, ObjectIs
    <2>2. tree[p].id \in Nat
      BY <1>1, <2>1
    <2>3. Capturing[p] = [id |-> tree[p].id, shape |-> Shape(tree, p), completed |-> FALSE, tombstone |-> FALSE]
      BY <1>5
    <2>4. DOMAIN Capturing[p] = {"id", "shape", "completed", "tombstone"}
      BY <2>3
    <2>5. Capturing[p].id = tree[p].id /\ Capturing[p].completed = FALSE /\ Capturing[p].tombstone = FALSE
      BY <2>3
    <2> QED BY <2>2, <2>4, <2>5 DEF RecoveryOK
  <1>8. PendingTypes'
    BY <1>1, <1>3, <1>4 DEF Types, PendingTypes, ApplyingNow
  <1>9. RecoveriesTypes'
    BY <1>1, <1>3, <1>5, <1>7, Grown DEF RecoveriesTypes, RecoveryOK
  <1>10. JournalTypes' /\ RowsTypes' /\ LinksTypes' /\ Types' /\ IntentsTogether' /\ Intents' = {}
    BY <1>1, <1>3, <1>8, <1>9, Framed
  <1>11. DOMAIN links = {}
    BY <1>1, <1>2 DEF Tables, Indexed
  <1>12. Indexed'
    BY <1>1, <1>2, <1>3, <1>4, <1>5, Grown DEF Indexed, Base
  <1>13. Unstarted' /\ Phases'
    BY <1>4, <1>10 DEF Unstarted, Phases
  <1>14. Creations'
    BY <1>1, <1>2, <1>3, <1>4 DEF Tables, Creations, Base
  <1>15. Roots'
    BY <1>1, <1>2, <1>3 DEF Tables, Unstarted, Roots
  <1>16. Linked'
    BY <1>3, <1>11 DEF Linked
  <1> QED BY <1>10, <1>12, <1>13, <1>14, <1>15, <1>16 DEF Tables

LEMMA RegisterRecoveryPlanKeeps ==
    ASSUME IInv, RegisterRecoveryPlan, scenario' = scenario, edits' = edits
    PROVE  IInv'
  <1>1. At("register") /\ UNCHANGED fs
    BY DEF RegisterRecoveryPlan, ClearUnstartedCheckout, Commit
  <1>2. /\ run.stage = "register" /\ Intents = {} /\ run.cmd # "none" /\ Stages /\ Places /\ Tables /\ Types /\ Worlds
        /\ scenario \in Scenarios /\ lastId' = lastId /\ lastId \in Nat
    BY <1>1, AtIs DEF fs, Worlds
  <1>3. Base /\ State = "pending" /\ run.cmd # "bind" /\ DOMAIN rows = DOMAIN TargetShape
    BY <1>2 DEF Stages, BindStages, Places
  <1>4. CASE Scan(tree, {}, {}) # BaseShape
    <2>1. db' = [db EXCEPT !.rows = <<>>, !.pending = NoPending] /\ run' = NoRun
      BY <1>4 DEF RegisterRecoveryPlan, ClearUnstartedCheckout
    <2>2. DbIs(journal, NoPending, <<>>, recoveries, links, index)
      BY <1>2, <2>1, Transactions
    <2>3. DOMAIN links = {} /\ \A a \in journal : a.origin = None /\ ~ IsPromotion(a)
      BY <1>2, <1>3 DEF Tables, Indexed, Unstarted
    <2>4. Tables'
      BY <1>2, <1>3, <2>2, <2>3, Emptied DEF Base
    <2> QED BY <1>1, <2>1, <2>4, Ended
  <1>5. CASE Scan(tree, {}, {}) = BaseShape
    <2>1. db' = [db EXCEPT !.recoveries = Capturing, !.pending = ApplyingNow] /\ Goto("prepare", 1)
      BY <1>5 DEF RegisterRecoveryPlan, Commit, Capturing, ApplyingNow
    <2>2. DbIs(journal, ApplyingNow, rows, Capturing, links, index)
      BY <1>2, <2>1, Transactions
    <2>3. Tables' /\ Intents' = {}
      BY <1>1, <1>2, <1>5, <2>2, RegisteredPlan
    <2>4. /\ Worlds' /\ RunTypes' /\ Acting'
          /\ run'.cmd = run.cmd /\ run'.stage = "prepare" /\ run'.at = 1
          /\ TargetShape' = TargetShape /\ ~ TakingBack'
      BY <1>1, <1>2, <2>1, Arrived DEF BackStages
    <2>5. rows' = rows /\ index' = index /\ State' = "applying" /\ Base'
      BY <1>3, <2>2 DEF DbIs, State, Base, ApplyingNow
    <2>6. Stages'
      BY <1>2, <1>3, <2>3, <2>4, <2>5 DEF Stages
    <2>7. Places'
      BY <1>3, <2>4, <2>5 DEF Places
    <2> QED BY <2>3, <2>4, <2>6, <2>7 DEF IInv, Control
  <1> QED BY <1>4, <1>5

(***************************************************************************)
(* The end of a checkout.                                                  *)
(***************************************************************************)
LEMMA VerifyCapturedKeeps ==
    ASSUME IInv, VerifyCaptured, scenario' = scenario, edits' = edits
    PROVE  IInv'
  <1>1. At("verify")
    BY DEF VerifyCaptured
  <1>2. /\ run.stage = "verify" /\ Intents = {} /\ run.cmd # "none" /\ Stages /\ Places /\ Tables /\ Types
        /\ (Applying => Base /\ State = "applying")
    BY <1>1, AtIs
  <1>3. Applying /\ run.cmd # "bind"
    BY <1>2 DEF Applying, ApplyStages, Stages, BindStages
  <1>4. CASE VerifyAll
    <2>1. Enter("scan", 0)
      BY <1>4 DEF VerifyCaptured
    <2>2. /\ run'.cmd = run.cmd /\ run'.stage = "scan" /\ run'.at = 0 /\ Intents' = {} /\ State' = State /\ (Base' <=> Base)
          /\ index' = index /\ rows' = rows /\ recoveries' = recoveries /\ links' = links /\ Promote' = Promote
          /\ TargetShape' = TargetShape /\ Applying' /\ ~ TakingBack'
          /\ Stages' /\ Places' => IInv'
      BY <1>2, <1>3, <2>1, Entered DEF ApplyStages, BackStages
    <2>3. Stages'
      BY <1>2, <1>3, <2>2 DEF Stages, QuietStages
    <2>4. Places'
      BY <1>2, <1>3, <2>2 DEF Places, ApplyStages
    <2> QED BY <2>2, <2>3, <2>4
  <1>5. CASE ~ VerifyAll
    <2> DEFINE p == [pending EXCEPT !.state = "rolling_back"]
    <2>1. db' = BeginRollback /\ UNCHANGED fs
          /\ run' = [run EXCEPT !.cmd = "abort", !.stage = "restore", !.at = 1, !.step = "start"]
      BY <1>5 DEF VerifyCaptured
    <2>2. db' = [db EXCEPT !.pending = p]
      BY <1>2, <2>1 DEF BeginRollback, pending, Types
    <2>3. DOMAIN p = {"state", "stamp"} /\ p.state = "rolling_back"
      BY <1>2 DEF Types, PendingTypes
    <2> HIDE DEF p
    <2>4. Worlds' /\ lastId' = lastId /\ lastId \in Nat
      BY <2>1, WorldsSame DEF IInv, fs, Worlds
    <2>5. DbIs(journal, p, rows, recoveries, links, index)
      BY <1>2, <2>2, Transactions
    <2>6. index # "target"
      BY <1>2, <1>3 DEF Base
    <2>7. Tables' /\ Intents' = {}
      BY <1>2, <2>3, <2>4, <2>5, <2>6, PendingOnly
    <2>8. RunTypes
      BY DEF IInv, Control
    <2>9. RunTypes' /\ run'.cmd = "abort" /\ run'.stage = "restore" /\ run'.at = 1 /\ run'.acted = FALSE
      BY <1>2, <2>1, <2>8, Idle DEF RunTypes
    <2>10. index' = index /\ State' = "rolling_back"
      BY <2>3, <2>5 DEF DbIs, State
    <2>11. Stages'
      BY <2>6, <2>9, <2>10 DEF Stages, Applying, TakingBack, ApplyStages, BackStages, QuietStages
    <2>12. Places' /\ Acting'
      BY <2>9 DEF Places, Acting, Applying, TakingBack, ApplyStages, BackStages
    <2> QED BY <2>4, <2>7, <2>9, <2>11, <2>12 DEF IInv, Control
  <1> QED BY <1>4, <1>5

Final == [pending EXCEPT !.state = "finalized"]

LEMMA FinalTables ==
    ASSUME Tables, Intents = {}, scenario' = scenario, lastId' = lastId, lastId \in Nat, Base, State = "applying",
           DbIs(journal, Final, rows, recoveries, links, "target")
    PROVE  Tables' /\ Intents' = {}
  <1>1. /\ journal' = journal /\ pending' = Final /\ rows' = rows /\ recoveries' = recoveries /\ links' = links
        /\ index' = "target" /\ DOMAIN db' = DbFields
    BY DEF DbIs
  <1>2. DOMAIN Final = {"state", "stamp"} /\ Final.state = "finalized"
    BY DEF Tables, Types, PendingTypes, Final
  <1>3. State' = "finalized" /\ ~ Base'
    BY <1>1, <1>2 DEF State, Base
  <1>4. PendingTypes'
    BY <1>1, <1>2, <1>3 DEF PendingTypes
  <1>5. JournalTypes' /\ IntentsTogether' /\ Intents' = {} /\ RowsTypes' /\ RecoveriesTypes' /\ LinksTypes' /\ Types'
    BY <1>1, <1>4, Framed
  <1>6. Indexed' /\ Unstarted' /\ Phases' /\ Creations' /\ Roots' /\ Linked'
    BY <1>1, <1>3, <1>5 DEF Indexed, Unstarted, Phases, Creations, Roots, Linked
  <1> QED BY <1>5, <1>6 DEF Tables

LEMMA FinalizeSyncApplyKeeps ==
    ASSUME IInv, FinalizeSyncApply, scenario' = scenario, edits' = edits
    PROVE  IInv'
  <1>1. At("finalize")
    BY DEF FinalizeSyncApply
  <1>2. /\ run.stage = "finalize" /\ Intents = {} /\ run.cmd # "none" /\ Stages /\ Places /\ Tables /\ Types
        /\ (Applying => Base /\ State = "applying")
    BY <1>1, AtIs
  <1>3. Applying /\ run.cmd # "bind"
    BY <1>2 DEF Applying, ApplyStages, Stages, BindStages
  <1>4. Enter("late4", 1) \/ Commit([db EXCEPT !.index = "target", !.pending.state = "finalized"], "cleanup", 1)
    BY DEF FinalizeSyncApply
  <1>5. CASE Enter("late4", 1)
    <2>2. /\ run'.cmd = run.cmd /\ run'.stage = "late4" /\ run'.at = 1 /\ Intents' = {} /\ State' = State /\ (Base' <=> Base)
          /\ index' = index /\ rows' = rows /\ recoveries' = recoveries /\ links' = links /\ Promote' = Promote
          /\ TargetShape' = TargetShape /\ Applying' /\ ~ TakingBack'
          /\ Stages' /\ Places' => IInv'
      BY <1>2, <1>3, <1>5, Entered DEF ApplyStages, BackStages
    <2>3. Stages'
      BY <1>2, <1>3, <2>2 DEF Stages, QuietStages
    <2>4. Places'
      BY <1>2, <1>3, <2>2 DEF Places, ApplyStages
    <2> QED BY <2>2, <2>3, <2>4
  <1>6. CASE Commit([db EXCEPT !.index = "target", !.pending.state = "finalized"], "cleanup", 1)
    <2>1. db' = [db EXCEPT !.index = "target", !.pending.state = "finalized"] /\ Goto("cleanup", 1) /\ UNCHANGED fs
      BY <1>6 DEF Commit
    <2>2. DOMAIN db = DbFields /\ DOMAIN db' = DbFields
      BY <1>2, <2>1 DEF Types, DbFields
    <2>3. DbIs(journal, Final, rows, recoveries, links, "target")
      BY <2>1, <2>2 DEF DbIs, DbFields, Final, journal, pending, rows, recoveries, links, index
    <2>4. /\ Worlds' /\ RunTypes' /\ Acting' /\ lastId' = lastId /\ lastId \in Nat
          /\ run'.cmd = run.cmd /\ run'.stage = "cleanup" /\ run'.at = 1 /\ ~ Applying' /\ ~ TakingBack'
      BY <1>2, <2>1, Arrived DEF ApplyStages, BackStages
    <2>5. Tables' /\ Intents' = {}
      BY <1>2, <1>3, <2>3, <2>4, FinalTables
    <2>6. index' = "target" /\ ~ Base'
      BY <2>3 DEF DbIs, Base
    <2>7. Stages'
      BY <1>3, <2>4, <2>6 DEF Stages, QuietStages
    <2>8. Places'
      BY <2>4 DEF Places, ApplyStages
    <2> QED BY <2>4, <2>5, <2>7, <2>8 DEF IInv, Control
  <1> QED BY <1>4, <1>5, <1>6

LEMMA FinalizeCheckoutKeeps ==
    ASSUME IInv, FinalizeCheckout, scenario' = scenario, edits' = edits
    PROVE  IInv'
  <1>1. At("bindcommit")
    BY DEF FinalizeCheckout
  <1>2. /\ run.stage = "bindcommit" /\ Intents = {} /\ run.cmd # "none" /\ Stages /\ Tables /\ Types
    BY <1>1, AtIs
  <1>3. Fail \/ (/\ db' = [db EXCEPT !.index = "target", !.rows = <<>>, !.pending = NoPending, !.journal = {}]
                 /\ run' = NoRun /\ UNCHANGED fs)
    BY DEF FinalizeCheckout
  <1>4. CASE /\ db' = [db EXCEPT !.index = "target", !.rows = <<>>, !.pending = NoPending, !.journal = {}]
             /\ run' = NoRun /\ UNCHANGED fs
    <2>1. DOMAIN db = DbFields /\ DOMAIN db' = DbFields
      BY <1>2, <1>4 DEF Types, DbFields
    <2>2. DbIs({}, NoPending, <<>>, recoveries, links, "target")
      BY <1>4, <2>1 DEF DbIs, DbFields, journal, pending, rows, recoveries, links, index
    <2>3. lastId' = lastId /\ lastId \in Nat
      BY <1>4 DEF fs, IInv, Worlds
    <2>4. Tables'
      BY <1>2, <2>2, <2>3, Emptied
    <2> QED BY <1>4, <2>4, Ended
  <1> QED BY <1>3, <1>4, Failed

LEMMA FinishSyncCleanupKeeps ==
    ASSUME IInv, FinishSyncCleanup, scenario' = scenario, edits' = edits
    PROVE  IInv'
  <1>1. At("cleanup")
    BY DEF FinishSyncCleanup
  <1>2. /\ run.stage = "cleanup" /\ Intents = {} /\ run.cmd # "none" /\ Stages /\ Tables /\ Types
    BY <1>1, AtIs
  <1>3. ~ Base /\ run.cmd # "bind"
    BY <1>2 DEF Stages, BindStages
  <1>4. Enter("unbind", 0) \/ (/\ db' = [db EXCEPT !.rows = <<>>, !.pending = NoPending, !.journal = Intents]
                               /\ run' = NoRun /\ UNCHANGED fs)
    BY DEF FinishSyncCleanup
  <1>5. CASE Enter("unbind", 0)
    <2>1. /\ run'.cmd = run.cmd /\ run'.stage = "unbind" /\ run'.at = 0 /\ Intents' = {} /\ index' = index
          /\ ~ Applying' /\ ~ TakingBack' /\ (Stages' /\ Places' => IInv')
      BY <1>2, <1>5, Entered DEF ApplyStages, BackStages
    <2>2. Stages'
      BY <1>2, <1>3, <2>1 DEF Stages, QuietStages
    <2>3. Places'
      BY <2>1 DEF Places, ApplyStages
    <2> QED BY <2>1, <2>2, <2>3
  <1>6. CASE /\ db' = [db EXCEPT !.rows = <<>>, !.pending = NoPending, !.journal = Intents] /\ run' = NoRun /\ UNCHANGED fs
    <2>1. DOMAIN db = DbFields /\ DOMAIN db' = DbFields
      BY <1>2, <1>6 DEF Types, DbFields
    <2>2. DbIs({}, NoPending, <<>>, recoveries, links, index)
      BY <1>2, <1>6, <2>1 DEF DbIs, DbFields, journal, pending, rows, recoveries, links, index
    <2>3. lastId' = lastId /\ lastId \in Nat
      BY <1>6 DEF fs, IInv, Worlds
    <2>4. index \in {"none", "target", "gone"} /\ (index \in {"none", "gone"} => DOMAIN links = {} /\ DOMAIN recoveries = {})
      BY <1>2, <1>3 DEF Tables, Types, PendingTypes, Indexed, Base
    <2>5. Tables'
      BY <1>2, <2>2, <2>3, <2>4, Emptied
    <2> QED BY <1>6, <2>5, Ended
  <1> QED BY <1>4, <1>5, <1>6

(***************************************************************************)
(* The end of a rollback.                                                  *)
(***************************************************************************)
LEMMA ClearedIs ==
    ASSUME Types, db' = Cleared
    PROVE  DbIs(journal, NoPending, <<>>, <<>>, <<>>, index)
  <1>1. DOMAIN db = DbFields /\ DOMAIN db' = DbFields
    BY DEF Types, DbFields, Cleared
  <1> QED BY <1>1 DEF DbIs, DbFields, Cleared, journal, pending, rows, recoveries, links, index

LEMMA ClearedTables ==
    ASSUME Tables, Intents = {}, journal = {}, scenario' = scenario, lastId' = lastId, lastId \in Nat, db' = Cleared
    PROVE  Tables' /\ Intents' = {} /\ State' = "none" /\ index' = index /\ links' = <<>>
  <1>1. DbIs(journal, NoPending, <<>>, <<>>, <<>>, index) /\ Types
    BY ClearedIs DEF Tables
  <1>2. State' = "none" /\ index' = index /\ links' = <<>>
    BY <1>1 DEF DbIs, State, NoPending
  <1>3. index \in {"none", "base", "target", "gone"} /\ DOMAIN <<>> = {}
    BY <1>1 DEF Types, PendingTypes
  <1>4. PICK e : e = <<>>
    OBVIOUS
  <1>5. DbIs(journal, NoPending, <<>>, e, e, index) /\ DOMAIN e = {}
    BY <1>1, <1>3, <1>4
  <1>6. Tables' /\ Intents' = {}
    BY <1>1, <1>3, <1>5, Emptied
  <1> QED BY <1>2, <1>6

LEMMA EmptyJournal ==
    ASSUME Tables, Intents = {}, scenario' = scenario, lastId' = lastId, lastId \in Nat, db' = [db EXCEPT !.journal = {}],
           State # "applying", \A s \in DOMAIN links : links[s].rollback # None
    PROVE  /\ Tables' /\ Intents' = {} /\ journal' = {} /\ State' = State /\ index' = index /\ links' = links
  <1>1. DbIs({}, pending, rows, recoveries, links, index)
    BY Transactions DEF Tables
  <1>2. /\ journal' = {} /\ pending' = pending /\ rows' = rows /\ recoveries' = recoveries /\ links' = links
        /\ index' = index /\ DOMAIN db' = DbFields /\ State' = State /\ (Base' <=> Base)
    BY <1>1 DEF DbIs, State, Base
  <1>3. Intents' = {}
    BY <1>2 DEF Intents
  <1>4. JournalTypes'
    <2>1. IsFiniteSet({})
      BY FS_EmptySet
    <2> QED BY <1>2, <2>1 DEF JournalTypes
  <1>5. Types' /\ Indexed'
    BY <1>2, <1>4, Framed
  <1>6. IntentsTogether' /\ Unstarted' /\ Phases' /\ Roots'
    BY <1>2, <1>3 DEF IntentsTogether, Unstarted, Phases, Roots
  <1>7. Creations'
    BY <1>2 DEF Tables, Creations
  <1>8. Linked'
    <2>1. \A s : ~ Away(s)'
      BY <1>2 DEF Away, RestoreIs
    <2> QED BY <1>2, <2>1 DEF Linked
  <1> QED BY <1>2, <1>3, <1>5, <1>6, <1>7, <1>8 DEF Tables

LEMMA ClearRollbackKeeps ==
    ASSUME IInv, ClearRollback, scenario' = scenario, edits' = edits
    PROVE  IInv'
  <1>1. At("clear")
    BY DEF ClearRollback
  <1>2. /\ run.stage = "clear" /\ Intents = {} /\ run.cmd # "none" /\ Stages /\ Places /\ Tables /\ Types
    BY <1>1, AtIs
  <1>3. TakingBack /\ run.cmd # "bind" /\ index # "target" /\ State # "applying"
        /\ \A s \in DOMAIN links : links[s].rollback # None
    BY <1>2 DEF TakingBack, BackStages, Stages, BindStages, Places
  <1>4. run.at = 1 \/ (run.at = 2 /\ journal = {})
    BY <1>2 DEF Places
  <1>5. CASE run.at = 1
    <2>1. db' = [db EXCEPT !.journal = {}] /\ Goto("clear", 2) /\ UNCHANGED fs
      BY <1>5 DEF ClearRollback, Commit
    <2>2. /\ Worlds' /\ RunTypes' /\ Acting' /\ lastId' = lastId /\ lastId \in Nat
          /\ run'.cmd = run.cmd /\ run'.stage = "clear" /\ run'.at = 2 /\ ~ Applying' /\ TakingBack'
      BY <1>2, <2>1, Arrived DEF ApplyStages, BackStages
    <2>3. Tables' /\ Intents' = {} /\ journal' = {} /\ State' = State /\ index' = index /\ links' = links
      BY <1>2, <1>3, <2>1, <2>2, EmptyJournal
    <2>4. Stages'
      BY <1>2, <1>3, <2>2, <2>3 DEF Stages
    <2>5. Places'
      BY <1>3, <2>2, <2>3 DEF Places, ApplyStages
    <2> QED BY <2>2, <2>3, <2>4, <2>5 DEF IInv, Control
  <1>6. CASE run.at = 2 /\ run.cmd = "unbind"
    <2>1. Enter("unbind", 0)
      BY <1>6 DEF ClearRollback
    <2>2. /\ run'.cmd = run.cmd /\ run'.stage = "unbind" /\ run'.at = 0 /\ Intents' = {} /\ index' = index
          /\ ~ Applying' /\ ~ TakingBack' /\ (Stages' /\ Places' => IInv')
      BY <1>2, <2>1, Entered DEF ApplyStages, BackStages
    <2>3. Stages'
      BY <1>6, <2>2 DEF Stages
    <2>4. Places'
      BY <2>2 DEF Places, ApplyStages
    <2> QED BY <2>2, <2>3, <2>4
  <1>7. CASE run.at = 2 /\ run.cmd = "sync"
    <2>1. db' = Cleared /\ Goto("plan", 0) /\ UNCHANGED fs
      BY <1>7 DEF ClearRollback, Commit
    <2>2. /\ Worlds' /\ RunTypes' /\ Acting' /\ lastId' = lastId /\ lastId \in Nat
          /\ run'.cmd = run.cmd /\ run'.stage = "plan" /\ run'.at = 0 /\ ~ Applying' /\ ~ TakingBack'
      BY <1>2, <2>1, Arrived DEF ApplyStages, BackStages
    <2>3. Tables' /\ Intents' = {} /\ State' = "none" /\ index' = index
      BY <1>2, <1>4, <1>7, <2>1, <2>2, ClearedTables
    <2>4. Stages'
      BY <1>2, <1>7, <2>2, <2>3 DEF Stages
    <2>5. Places'
      BY <2>2 DEF Places, ApplyStages
    <2> QED BY <2>2, <2>3, <2>4, <2>5 DEF IInv, Control
  <1>8. CASE run.at = 2 /\ run.cmd \notin {"unbind", "sync"}
    <2>1. db' = Cleared /\ run' = NoRun /\ UNCHANGED fs
      BY <1>8 DEF ClearRollback
    <2>2. lastId' = lastId /\ lastId \in Nat
      BY <2>1 DEF fs, IInv, Worlds
    <2>3. Tables'
      BY <1>2, <1>4, <1>8, <2>1, <2>2, ClearedTables
    <2> QED BY <2>1, <2>3, Ended
  <1> QED BY <1>4, <1>5, <1>6, <1>7, <1>8

LEMMA RunLibraryUnbindKeeps ==
    ASSUME IInv, RunLibraryUnbind, scenario' = scenario, edits' = edits
    PROVE  IInv'
  <1>1. At("unbind") /\ db' = [Cleared EXCEPT !.journal = {}, !.index = "gone"] /\ run' = NoRun /\ UNCHANGED fs
    BY DEF RunLibraryUnbind
  <1>2. Intents = {} /\ Tables /\ Types
    BY <1>1, AtIs
  <1>3. DOMAIN db = DbFields /\ DOMAIN Cleared = DbFields /\ DOMAIN db' = DbFields
    BY <1>1, <1>2 DEF Types, DbFields, Cleared
  <1>4. DbIs({}, NoPending, <<>>, <<>>, <<>>, "gone")
    BY <1>1, <1>3 DEF DbIs, DbFields, Cleared, journal, pending, rows, recoveries, links, index
  <1>5. lastId' = lastId /\ lastId \in Nat /\ DOMAIN <<>> = {}
    BY <1>1 DEF fs, IInv, Worlds
  <1>6. PICK e : e = <<>>
    OBVIOUS
  <1>7. DbIs({}, NoPending, <<>>, e, e, "gone") /\ DOMAIN e = {}
    BY <1>4, <1>5, <1>6
  <1>8. Tables'
    BY <1>2, <1>5, <1>7, Emptied
  <1> QED BY <1>1, <1>8, Ended

(***************************************************************************)
(* The journal that the code's validation takes: CInv.  Chains: a chain's  *)
(* rows have a root, their attempts count up from 1 without a gap and one by *)
(* one, each promotion's name follows the one before; a chain that moves an *)
(* unknown object aside hangs on a creation that was given up, and the row *)
(* of a target path still names that creation.  Owners: a link's source has *)
(* been captured and its rows are there, no two links share a chain or a   *)
(* restore, and no promotion or restore is without its link.               *)
(***************************************************************************)
Owner(r) == \E p \in DOMAIN rows : rows[p].create = r.order /\ Parent(p) = Parent(r.path)
InChain(a) == a \in journal /\ a.origin # None
Follows(a, c) == a.origin \in {c.origin, c.order} /\ a.attempt = c.attempt + 1

Rooted == \A a \in journal : InChain(a) => \E r \in journal : r.order = a.origin /\ r.origin = None
Numbered == \A a \in journal : InChain(a) =>
    /\ a.attempt # 0
    /\ a.attempt = 1 \/ \E c \in journal : c.origin = a.origin /\ c.attempt = a.attempt - 1
    /\ \A c \in journal : c.origin = a.origin /\ c.attempt = a.attempt => c = a
Successive == \A a, c \in journal : InChain(a) /\ IsPromotion(a) /\ Follows(a, c) => a.target = NextName(c.target)
MovesAside(a, r) ==
    /\ r.op = "create" /\ r.state = "completed" /\ r.outcome = "rolled_back" /\ Owner(r) /\ State = "rolling_back"
    /\ a.op = "rename" /\ a.path = r.path /\ a.target = Recovered(r.path, a.attempt)
    /\ (a.outcome = "collision") <=> \E c \in journal : c.origin = a.origin /\ c.attempt = a.attempt + 1
OneKind == \A a, r \in journal : InChain(a) /\ r.order = a.origin =>
    IF IsPromotion(r) THEN IsPromotion(a) ELSE MovesAside(a, r)
TurnedBack == \A a \in journal : a.outcome = "rolled_back" => \E c \in journal : c.origin = a.order
Creating1 == \A a \in Intents : a.op = "create" => Owner(a) /\ State \in {"pending", "applying", "rolling_back"}
Chains == Rooted /\ Numbered /\ Successive /\ OneKind /\ TurnedBack /\ Creating1

(* The links.                                                              *)
RestoredFrom(s) == \E a, c \in journal : RestoreIs(s, a) /\ CurrentIs(s, c) /\ a.path = c.target /\ c.state = "completed"
Captured1(s) == Top(s) \in DOMAIN recoveries /\ recoveries[Top(s)].completed
Owned(s) == (\E c \in journal : CurrentIs(s, c)) /\ Captured1(s) /\ (links[s].rollback # None => RestoredFrom(s))
RootOn(s, o) == s \in DOMAIN links /\ \E c \in journal : CurrentIs(s, c) /\ RootOrder(c) = o
Apart == \A s, z \in DOMAIN links :
    /\ (\E c \in journal : RootOn(s, RootOrder(c)) /\ RootOn(z, RootOrder(c))) => s = z
    /\ links[s].rollback = links[z].rollback /\ links[s].rollback # None => s = z
Linked1 == \A a \in journal :
    /\ IsPromotion(a) /\ a.origin = None => \E s \in DOMAIN links : RootOn(s, a.order)
    /\ a.op = "restore" => State = "rolling_back" /\ \E s \in DOMAIN links : links[s].rollback = a.order
Owners == (\A s \in DOMAIN links : Owned(s)) /\ Apart /\ Linked1

(* A step that leaves chains and links as they are: every row has one like it *)
(* on the other side, or is of a kind that neither speaks of.              *)
Similar(a, r) ==
    /\ r.order = a.order /\ r.op = a.op /\ r.path = a.path /\ r.target = a.target /\ r.origin = a.origin
    /\ r.attempt = a.attempt /\ r.outcome = a.outcome /\ (IsPromotion(r) <=> IsPromotion(a)) /\ r.state \in {"completed", a.state}
Bystander(a) == a.origin = None /\ a.op \notin {"create", "restore"} /\ ~ IsPromotion(a) /\ a.outcome # "rolled_back"
Matched == /\ \A a \in journal : Bystander(a) \/ \E r \in journal' : Similar(a, r)
           /\ \A r \in journal' : Bystander(r) \/ \E a \in journal : Similar(a, r)
OwnersKept == \A r \in journal : r.op = "create" /\ (r.state = "intent" \/ r.outcome = "rolled_back") /\ Owner(r) => Owner(r)'
CapturedKept == \A s \in DOMAIN links : Captured1(s) => Captured1(s)'
StateKept == \/ State' = State \/ State' = "rolling_back"
             \/ State # "rolling_back" /\ \A a \in journal' : a.op = "create" => a.state # "intent"

LEMMA ChainsUnaltered ==
    ASSUME JournalTypes, JournalTypes', Chains, Matched, OwnersKept, StateKept
    PROVE  Chains'
  <1>1. \A a, c \in journal : a.order = c.order => a = c
    BY DEF JournalTypes
  <1>2. \A a, c \in journal' : a.order = c.order => a = c
    BY DEF JournalTypes
  <1>3. ASSUME NEW a \in journal, a.origin # None
        PROVE  \E x \in journal' : Similar(a, x)
    BY <1>3 DEF Matched, Bystander
  <1>4. ASSUME NEW x \in journal', x.origin # None
        PROVE  \E a \in journal : Similar(a, x)
    BY <1>4 DEF Matched, Bystander
  <1>5. ASSUME NEW a \in journal, a.origin # None, NEW r \in journal, r.order = a.origin
        PROVE  \E x \in journal' : Similar(r, x)
    BY <1>5 DEF Matched, Bystander, Chains, OneKind, InChain, MovesAside
  <1>6. Rooted'
    <2> SUFFICES ASSUME NEW x \in journal', x.origin # None
                 PROVE  \E r \in journal' : r.order = x.origin /\ r.origin = None
      BY DEF Rooted, InChain
    <2>1. PICK a \in journal : Similar(a, x)
      BY <1>4
    <2>2. PICK r \in journal : r.order = a.origin /\ r.origin = None
      BY <2>1 DEF Chains, Rooted, InChain, Similar
    <2>3. PICK y \in journal' : Similar(r, y)
      BY <1>5, <2>1, <2>2 DEF Similar
    <2> QED BY <2>1, <2>2, <2>3 DEF Similar
  <1>7. Numbered'
    <2> SUFFICES ASSUME NEW x \in journal', x.origin # None
                 PROVE  /\ x.attempt # 0
                        /\ x.attempt = 1 \/ \E c \in journal' : c.origin = x.origin /\ c.attempt = x.attempt - 1
                        /\ \A c \in journal' : c.origin = x.origin /\ c.attempt = x.attempt => c = x
      BY DEF Numbered, InChain
    <2>1. PICK a \in journal : Similar(a, x)
      BY <1>4
    <2>2. /\ a.attempt # 0
          /\ a.attempt = 1 \/ \E c \in journal : c.origin = a.origin /\ c.attempt = a.attempt - 1
          /\ \A c \in journal : c.origin = a.origin /\ c.attempt = a.attempt => c = a
      BY <2>1 DEF Chains, Numbered, InChain, Similar
    <2>3. x.attempt = 1 \/ \E c \in journal' : c.origin = x.origin /\ c.attempt = x.attempt - 1
      <3>1. ASSUME NEW c \in journal, c.origin = a.origin, c.attempt = a.attempt - 1
            PROVE  \E d \in journal' : d.origin = x.origin /\ d.attempt = x.attempt - 1
        BY <1>3, <2>1, <3>1 DEF Similar
      <3> QED BY <2>1, <2>2, <3>1 DEF Similar
    <2>4. ASSUME NEW c \in journal', c.origin = x.origin, c.attempt = x.attempt
          PROVE  c = x
      <3>1. PICK d \in journal : Similar(d, c)
        BY <1>4, <2>4
      <3>2. d = a
        BY <2>1, <2>2, <2>4, <3>1 DEF Similar
      <3> QED BY <1>2, <2>1, <3>1, <3>2 DEF Similar
    <2> QED BY <2>1, <2>2, <2>3, <2>4 DEF Similar
  <1>8. Successive'
    <2> SUFFICES ASSUME NEW x \in journal', NEW y \in journal', x.origin # None, IsPromotion(x), Follows(x, y)
                 PROVE  x.target = NextName(y.target)
      BY DEF Successive, InChain, Follows, IsPromotion
    <2>1. PICK a \in journal : Similar(a, x)
      BY <1>4
    <2>2. PICK r \in journal : r.order = a.origin /\ r.origin = None
      BY <2>1 DEF Chains, Rooted, InChain, Similar
    <2>3. \E c \in journal : Similar(c, y)
      <3>1. CASE y.origin = x.origin
        BY <1>4, <3>1
      <3>2. CASE y.order = x.origin
        <4>1. PICK z \in journal' : Similar(r, z)
          BY <1>5, <2>1, <2>2 DEF Similar
        <4>2. z = y
          BY <1>2, <2>1, <2>2, <3>2, <4>1 DEF Similar
        <4> QED BY <4>1, <4>2
      <3> QED BY <3>1, <3>2 DEF Follows
    <2>4. PICK c \in journal : Similar(c, y)
      BY <2>3
    <2>5. IsPromotion(a) /\ Follows(a, c) /\ a.origin # None
      BY <2>1, <2>4 DEF Follows, Similar
    <2>6. a.target = NextName(c.target)
      BY <2>5 DEF Chains, Successive, InChain
    <2> QED BY <2>1, <2>4, <2>6 DEF Similar
  <1>9. OneKind'
    <2> SUFFICES ASSUME NEW x \in journal', NEW y \in journal', x.origin # None, y.order = x.origin
                 PROVE  IF IsPromotion(y) THEN IsPromotion(x) ELSE MovesAside(x, y)'
      BY DEF OneKind, InChain, IsPromotion
    <2>1. PICK a \in journal : Similar(a, x)
      BY <1>4
    <2>2. PICK r \in journal : r.order = a.origin /\ r.origin = None
      BY <2>1 DEF Chains, Rooted, InChain, Similar
    <2>3. PICK z \in journal' : Similar(r, z)
      BY <1>5, <2>1, <2>2 DEF Similar
    <2>4. z = y
      BY <1>2, <2>1, <2>2, <2>3 DEF Similar
    <2>5. IF IsPromotion(r) THEN IsPromotion(a) ELSE MovesAside(a, r)
      BY <2>1, <2>2 DEF Chains, OneKind, InChain, Similar
    <2>6. CASE IsPromotion(r)
      BY <2>1, <2>3, <2>4, <2>5, <2>6 DEF Similar
    <2>7. CASE ~ IsPromotion(r)
      <3>1. MovesAside(a, r)
        BY <2>5, <2>7
      <3>2. y.op = "create" /\ y.state = "completed" /\ y.outcome = "rolled_back" /\ ~ IsPromotion(y)
        BY <2>3, <2>4, <2>7, <3>1 DEF MovesAside, Similar
      <3>3. Owner(y)'
        <4>1. Owner(r)'
          BY <3>1 DEF MovesAside, OwnersKept
        <4> QED BY <2>3, <2>4, <4>1 DEF Owner, Similar
      <3>4. State' = "rolling_back"
        BY <3>1 DEF MovesAside, StateKept
      <3>5. x.op = "rename" /\ x.path = y.path /\ x.target = Recovered(y.path, x.attempt)
        BY <2>1, <2>3, <2>4, <3>1 DEF MovesAside, Similar
      <3>6. (\E c \in journal : c.origin = a.origin /\ c.attempt = a.attempt + 1)
            <=> \E c \in journal' : c.origin = x.origin /\ c.attempt = x.attempt + 1
        <4>1. ASSUME NEW c \in journal, c.origin = a.origin, c.attempt = a.attempt + 1
              PROVE  \E d \in journal' : d.origin = x.origin /\ d.attempt = x.attempt + 1
          BY <1>3, <2>1, <4>1 DEF Similar
        <4>2. ASSUME NEW d \in journal', d.origin = x.origin, d.attempt = x.attempt + 1
              PROVE  \E c \in journal : c.origin = a.origin /\ c.attempt = a.attempt + 1
          BY <1>4, <2>1, <4>2 DEF Similar
        <4> QED BY <4>1, <4>2
      <3>7. (x.outcome = "collision") <=> \E c \in journal' : c.origin = x.origin /\ c.attempt = x.attempt + 1
        BY <2>1, <3>1, <3>6 DEF MovesAside, Similar
      <3> QED BY <3>2, <3>3, <3>4, <3>5, <3>7 DEF MovesAside
    <2> QED BY <2>6, <2>7
  <1>10. TurnedBack'
    <2> SUFFICES ASSUME NEW x \in journal', x.outcome = "rolled_back"
                 PROVE  \E c \in journal' : c.origin = x.order
      BY DEF TurnedBack
    <2>1. PICK a \in journal : Similar(a, x)
      BY DEF Matched, Bystander
    <2>2. PICK c \in journal : c.origin = a.order
      BY <2>1 DEF Chains, TurnedBack, Similar
    <2>3. a.order # None
      BY <2>1 DEF JournalTypes, RowOK, None
    <2>4. PICK d \in journal' : Similar(c, d)
      BY <1>3, <2>2, <2>3
    <2> QED BY <2>1, <2>2, <2>4 DEF Similar
  <1>11. Creating1'
    <2> SUFFICES ASSUME NEW x \in journal', x.state = "intent", x.op = "create"
                 PROVE  Owner(x)' /\ State' \in {"pending", "applying", "rolling_back"}
      BY DEF Creating1, Intents
    <2>1. PICK a \in journal : Similar(a, x)
      BY DEF Matched, Bystander
    <2>2. a.state = "intent" /\ a.op = "create" /\ a \in Intents
      BY <2>1 DEF Similar, Intents
    <2>3. Owner(a) /\ State \in {"pending", "applying", "rolling_back"}
      BY <2>2 DEF Chains, Creating1
    <2>4. Owner(a)'
      BY <2>2, <2>3 DEF OwnersKept
    <2>5. Owner(x)'
      BY <2>1, <2>4 DEF Owner, Similar
    <2> QED BY <2>3, <2>5 DEF StateKept
  <1> QED BY <1>6, <1>7, <1>8, <1>9, <1>10, <1>11 DEF Chains

Outsider(a) == ~ IsPromotion(a) /\ a.op # "restore"
OwnersMatched == /\ \A a \in journal : Outsider(a) \/ \E r \in journal' : Similar(a, r)
                 /\ \A r \in journal' : Outsider(r) \/ \E a \in journal : Similar(a, r)

LEMMA OwnersUnaltered ==
    ASSUME Owners, OwnersMatched, CapturedKept, StateKept, links' = links
    PROVE  Owners'
  <1>1. ASSUME NEW a \in journal, ~ Outsider(a)
        PROVE  \E x \in journal' : Similar(a, x)
    BY <1>1 DEF OwnersMatched
  <1>2. ASSUME NEW s \in DOMAIN links, NEW c, CurrentIs(s, c)
        PROVE  \E d : CurrentIs(s, d)' /\ Similar(c, d)
    <2>1. c \in journal /\ IsPromotion(c) /\ c.order = links[s].current
      BY <1>2 DEF CurrentIs
    <2>2. PICK d \in journal' : Similar(c, d)
      BY <1>1, <2>1 DEF Outsider
    <2>3. IsPromotion(d) /\ d.order = links'[s].current
      BY <2>1, <2>2 DEF Similar
    <2> QED BY <2>2, <2>3 DEF CurrentIs, IsPromotion
  <1>3. ASSUME NEW s \in DOMAIN links, NEW d, CurrentIs(s, d)'
        PROVE  \E c : CurrentIs(s, c) /\ Similar(c, d)
    <2>1. d \in journal' /\ IsPromotion(d) /\ d.order = links[s].current
      BY <1>3 DEF CurrentIs, IsPromotion
    <2>2. PICK c \in journal : Similar(c, d)
      BY <2>1 DEF OwnersMatched, Outsider
    <2>3. IsPromotion(c) /\ c.order = links[s].current
      BY <2>1, <2>2 DEF Similar
    <2> QED BY <2>2, <2>3 DEF CurrentIs
  <1>4. ASSUME NEW s \in DOMAIN links, Owned(s)
        PROVE  Owned(s)'
    <2>1. Captured1(s)'
      BY <1>4 DEF CapturedKept, Owned
    <2>2. \E d \in journal' : CurrentIs(s, d)'
      BY <1>2, <1>4 DEF Owned, CurrentIs
    <2>3. ASSUME links[s].rollback # None
          PROVE  RestoredFrom(s)'
      <3>1. PICK a \in journal, c \in journal : RestoreIs(s, a) /\ CurrentIs(s, c) /\ a.path = c.target /\ c.state = "completed"
        BY <1>4, <2>3 DEF Owned, RestoredFrom
      <3>2. PICK x \in journal' : Similar(a, x)
        BY <1>1, <3>1 DEF RestoreIs, Outsider
      <3>3. RestoreIs(s, x)'
        BY <3>1, <3>2 DEF RestoreIs, Similar
      <3>4. PICK d : CurrentIs(s, d)' /\ Similar(c, d)
        BY <1>2, <3>1
      <3>5. d \in journal' /\ x.path = d.target /\ d.state = "completed"
        BY <3>1, <3>2, <3>4 DEF Similar, CurrentIs
      <3> QED BY <3>2, <3>3, <3>4, <3>5 DEF RestoredFrom
    <2> QED BY <2>1, <2>2, <2>3 DEF Owned
  <1>5. \A s, o : RootOn(s, o)' <=> RootOn(s, o)
    <2>1. ASSUME NEW s, NEW o, RootOn(s, o)
          PROVE  RootOn(s, o)'
      <3>1. PICK c \in journal : s \in DOMAIN links /\ CurrentIs(s, c) /\ RootOrder(c) = o
        BY <2>1 DEF RootOn
      <3>2. PICK d : CurrentIs(s, d)' /\ Similar(c, d)
        BY <1>2, <3>1
      <3>3. d \in journal' /\ RootOrder(d) = o
        BY <3>1, <3>2 DEF Similar, CurrentIs, RootOrder
      <3> QED BY <3>1, <3>2, <3>3 DEF RootOn
    <2>2. ASSUME NEW s, NEW o, RootOn(s, o)'
          PROVE  RootOn(s, o)
      <3>1. PICK d \in journal' : s \in DOMAIN links /\ CurrentIs(s, d)' /\ RootOrder(d) = o
        BY <2>2 DEF RootOn, RootOrder
      <3>2. PICK c : CurrentIs(s, c) /\ Similar(c, d)
        BY <1>3, <3>1
      <3>3. c \in journal /\ RootOrder(c) = o
        BY <3>1, <3>2 DEF Similar, CurrentIs, RootOrder
      <3> QED BY <3>1, <3>2, <3>3 DEF RootOn
    <2> QED BY <2>1, <2>2
  <1>6. Apart'
    <2> SUFFICES ASSUME NEW s \in DOMAIN links, NEW z \in DOMAIN links
                 PROVE  /\ (\E c \in journal' : RootOn(s, RootOrder(c))' /\ RootOn(z, RootOrder(c))') => s = z
                        /\ links[s].rollback = links[z].rollback /\ links[s].rollback # None => s = z
      BY DEF Apart, RootOrder
    <2>1. ASSUME NEW d \in journal', RootOn(s, RootOrder(d))', RootOn(z, RootOrder(d))'
          PROVE  s = z
      <3>1. RootOn(s, RootOrder(d)) /\ RootOn(z, RootOrder(d))
        BY <1>5, <2>1
      <3>2. PICK c \in journal : RootOrder(c) = RootOrder(d)
        BY <3>1 DEF RootOn
      <3>3. RootOn(s, RootOrder(c)) /\ RootOn(z, RootOrder(c))
        BY <3>1, <3>2
      <3> QED BY <3>3 DEF Owners, Apart
    <2> QED BY <2>1 DEF Owners, Apart
  <1>7. Linked1'
    <2> SUFFICES ASSUME NEW x \in journal'
                 PROVE  /\ IsPromotion(x) /\ x.origin = None => \E s \in DOMAIN links : RootOn(s, x.order)'
                        /\ x.op = "restore" => State' = "rolling_back" /\ \E s \in DOMAIN links : links[s].rollback = x.order
      BY DEF Linked1, IsPromotion
    <2>1. CASE Outsider(x)
      BY <2>1 DEF Outsider
    <2>2. CASE \E a \in journal : Similar(a, x)
      <3>1. PICK a \in journal : Similar(a, x)
        BY <2>2
      <3>2. IsPromotion(x) /\ x.origin = None => \E s \in DOMAIN links : RootOn(s, x.order)
        BY <3>1 DEF Owners, Linked1, Similar
      <3>3. x.op = "restore" => State = "rolling_back" /\ \E s \in DOMAIN links : links[s].rollback = x.order
        BY <3>1 DEF Owners, Linked1, Similar
      <3>4. State = "rolling_back" => State' = "rolling_back"
        BY DEF StateKept
      <3> QED BY <1>5, <3>2, <3>3, <3>4
    <2> QED BY <2>1, <2>2 DEF OwnersMatched
  <1> QED BY <1>4, <1>6, <1>7 DEF Owners

LEMMA Unaltered ==
    ASSUME JournalTypes, JournalTypes', Chains, Owners, Matched, OwnersKept, CapturedKept, StateKept, links' = links
    PROVE  Chains' /\ Owners'
  <1>1. OwnersMatched
    BY DEF OwnersMatched, Matched, Outsider, Bystander
  <1> QED BY <1>1, ChainsUnaltered, OwnersUnaltered

LEMMA NothingLeft ==
    ASSUME journal' = {}, DOMAIN links' = {}
    PROVE  Chains' /\ Owners'
  <1>1. Chains'
    BY DEF Chains, Rooted, Numbered, Successive, OneKind, TurnedBack, Creating1, InChain, Intents
  <1>2. Owners'
    BY DEF Owners, Apart, Linked1
  <1> QED BY <1>1, <1>2

LEMMA Itself == \A a : Similar(a, a)
  BY DEF Similar

(* The rows stay as they are.                                              *)
LEMMA RowsOfPaths ==
    ASSUME \A p \in DOMAIN rows : p \in DOMAIN rows' /\ rows'[p].create = rows[p].create
    PROVE  OwnersKept
  BY DEF OwnersKept, Owner
LEMMA RowsOfRecoveries ==
    ASSUME links' = links,
           \A p \in DOMAIN recoveries : p \in DOMAIN recoveries' /\ (recoveries[p].completed => recoveries'[p].completed)
    PROVE  CapturedKept
  BY DEF CapturedKept, Captured1

Fresh1(n) == n \notin journal /\ \A a \in journal : a.order # n.order
LEMMA FreshIs ==
    ASSUME JournalTypes, Chains, NEW n, Fresh1(n)
    PROVE  /\ \A a \in journal : a.origin # None => a.origin # n.order
           /\ \A a \in journal : RootOrder(a) # n.order
  <1>1. \A a \in journal : a.origin # None => a.origin # n.order
    BY DEF Fresh1, Chains, Rooted, InChain
  <1> QED BY <1>1 DEF Fresh1, RootOrder

(* A new row that begins no chain and is in none.                          *)
LEMMA RootAdded ==
    ASSUME JournalTypes, Chains, NEW n, Fresh1(n), journal' = journal \cup {n}, n.origin = None, n.outcome = "",
           n.op = "create" => Owner(n)' /\ State \in {"pending", "applying", "rolling_back"},
           OwnersKept, State' = State
    PROVE  Chains'
  <1>1. \A a \in journal : a.origin # None => a.origin # n.order
    BY FreshIs
  <1>2. \A x \in journal' : x.origin # None => x \in journal
    OBVIOUS
  <1>3. \A x, y \in journal' : x.origin # None /\ (y.order = x.origin \/ y.origin = x.origin) => y \in journal
    BY <1>1
  <1>4. Rooted'
    BY <1>2 DEF Chains, Rooted, InChain
  <1>5. Numbered'
    <2> SUFFICES ASSUME NEW x \in journal', x.origin # None
                 PROVE  /\ x.attempt # 0
                        /\ x.attempt = 1 \/ \E c \in journal' : c.origin = x.origin /\ c.attempt = x.attempt - 1
                        /\ \A c \in journal' : c.origin = x.origin /\ c.attempt = x.attempt => c = x
      BY DEF Numbered, InChain
    <2>1. x \in journal /\ journal \subseteq journal'
      BY <1>2
    <2>2. /\ x.attempt # 0
          /\ x.attempt = 1 \/ \E c \in journal : c.origin = x.origin /\ c.attempt = x.attempt - 1
          /\ \A c \in journal : c.origin = x.origin /\ c.attempt = x.attempt => c = x
      BY <2>1 DEF Chains, Numbered, InChain
    <2> QED BY <1>2, <2>1, <2>2
  <1>6. Successive'
    <2> SUFFICES ASSUME NEW x \in journal', NEW y \in journal', x.origin # None, IsPromotion(x), Follows(x, y)
                 PROVE  x.target = NextName(y.target)
      BY DEF Successive, InChain, Follows, IsPromotion
    <2>1. x \in journal /\ y \in journal
      BY <1>2, <1>3 DEF Follows
    <2> QED BY <2>1 DEF Chains, Successive, InChain
  <1>7. OneKind'
    <2> SUFFICES ASSUME NEW x \in journal', NEW y \in journal', x.origin # None, y.order = x.origin
                 PROVE  IF IsPromotion(y) THEN IsPromotion(x) ELSE MovesAside(x, y)'
      BY DEF OneKind, InChain, IsPromotion
    <2>1. x \in journal /\ y \in journal
      BY <1>2, <1>3
    <2>2. IF IsPromotion(y) THEN IsPromotion(x) ELSE MovesAside(x, y)
      BY <2>1 DEF Chains, OneKind, InChain
    <2>3. ASSUME MovesAside(x, y)
          PROVE  MovesAside(x, y)'
      <3>1. Owner(y)'
        BY <2>1, <2>3 DEF MovesAside, OwnersKept
      <3>2. (\E c \in journal : c.origin = x.origin /\ c.attempt = x.attempt + 1)
            <=> \E c \in journal' : c.origin = x.origin /\ c.attempt = x.attempt + 1
        OBVIOUS
      <3> QED BY <2>3, <3>1, <3>2 DEF MovesAside
    <2> QED BY <2>2, <2>3
  <1>8. TurnedBack'
    BY DEF Chains, TurnedBack
  <1>9. Creating1'
    <2> SUFFICES ASSUME NEW x \in journal', x.state = "intent", x.op = "create"
                 PROVE  Owner(x)' /\ State' \in {"pending", "applying", "rolling_back"}
      BY DEF Creating1, Intents
    <2>1. CASE x = n
      BY <2>1
    <2>2. CASE x \in journal
      <3>1. x \in Intents
        BY <2>2 DEF Intents
      <3>2. Owner(x) /\ State \in {"pending", "applying", "rolling_back"}
        BY <3>1 DEF Chains, Creating1
      <3> QED BY <2>2, <3>2 DEF OwnersKept
    <2> QED BY <2>1, <2>2
  <1> QED BY <1>4, <1>5, <1>6, <1>7, <1>8, <1>9 DEF Chains

Tail1(root, tail) ==
    /\ tail \in journal /\ tail.attempt \in Nat
    /\ Chain(root.order) = {} => tail = root
    /\ Chain(root.order) # {} => tail \in Chain(root.order)
    /\ \A a \in Chain(root.order) : a.attempt <= tail.attempt

LEMMA Counting ==
    \A m \in Nat : /\ m + 1 \in Nat /\ m + 1 # 0 /\ (m = 0 => m + 1 = 1) /\ (m + 1) - 1 = m
                   /\ m + 1 # (m + 1) + 1 /\ ~ ((m + 1) + 1 <= m) /\ ~ (m + 1 <= m) /\ \A k \in Nat : m + 1 = k + 1 => m = k
  OBVIOUS

(* The next row of a chain of promotions.                                  *)
LEMMA ChainExtended ==
    ASSUME JournalTypes, Chains, NEW n, Fresh1(n), journal' = journal \cup {n}, rows' = rows, State' = State,
           NEW root \in journal, root.origin = None, IsPromotion(root), NEW tail, Tail1(root, tail),
           IsPromotion(n), n.outcome = "", n.origin = root.order, n.target = NextName(tail.target),
           NEW m \in Nat, tail.attempt = m, n.attempt = m + 1
    PROVE  Chains'
  <1>1. \A a \in journal : a.origin # None => a.origin # n.order
    BY FreshIs
  <1>2. \A a \in journal : a.attempt \in Nat /\ (a.origin = None => a.attempt = 0)
    BY DEF JournalTypes, RowOK
  <1>3. \A a \in journal : a.origin = root.order => a.attempt <= tail.attempt /\ a.attempt # n.attempt
    <2>1. \A a \in journal : a.origin = root.order => a \in Chain(root.order)
      BY DEF Chain
    <2>2. \A a \in journal : a.origin = root.order => a.attempt <= tail.attempt
      BY <2>1 DEF Tail1
    <2>3. ASSUME NEW a \in journal, a.origin = root.order
          PROVE  a.attempt # n.attempt
      <3>1. a.attempt <= m
        BY <2>2, <2>3
      <3>2. ~ (m + 1 <= m)
        BY Counting, Zenon
      <3> QED BY <3>1, <3>2, Zenon
    <2> QED BY <2>2, <2>3
  <1>4. root.order # None /\ \A a \in journal : a.order = root.order => a = root
    BY DEF JournalTypes, RowOK, None
  <1>5. tail = root \/ tail.origin = root.order
    BY DEF Tail1, Chain
  <1>0. m = tail.attempt
    OBVIOUS
  <1>20. /\ m + 1 \in Nat /\ m + 1 # 0 /\ (m = 0 => m + 1 = 1) /\ (m + 1) - 1 = m
         /\ m + 1 # (m + 1) + 1 /\ ~ ((m + 1) + 1 <= m) /\ ~ (m + 1 <= m) /\ \A k \in Nat : m + 1 = k + 1 => m = k
    BY Counting, Zenon
  <1>6. n.attempt = m + 1 /\ n.attempt \in Nat /\ n.attempt # 0 /\ n.attempt - 1 = m
    BY <1>20
  <1>7. n.op # "create"
    BY DEF IsPromotion
  <1>8. Rooted'
    BY DEF Chains, Rooted, InChain
  <1>9. Numbered'
    <2> SUFFICES ASSUME NEW x \in journal', x.origin # None
                 PROVE  /\ x.attempt # 0
                        /\ x.attempt = 1 \/ \E c \in journal' : c.origin = x.origin /\ c.attempt = x.attempt - 1
                        /\ \A c \in journal' : c.origin = x.origin /\ c.attempt = x.attempt => c = x
      BY DEF Numbered, InChain
    <2>1. CASE x = n
      <3>1. x.attempt = 1 \/ tail.origin = x.origin
        <4>1. CASE tail = root
          <5>1. m = 0
            BY <1>0, <1>2, <4>1
          <5> QED BY <1>6, <1>20, <2>1, <5>1, Zenon
        <4> QED BY <1>5, <2>1, <4>1
      <3>2. tail \in journal' /\ tail.attempt = x.attempt - 1
        BY <1>0, <1>6, <2>1 DEF Tail1
      <3>3. \A c \in journal' : c.origin = x.origin /\ c.attempt = x.attempt => c = x
        BY <1>3, <2>1
      <3> QED BY <1>6, <2>1, <3>1, <3>2, <3>3
    <2>2. CASE x \in journal
      <3>1. /\ x.attempt # 0
            /\ x.attempt = 1 \/ \E c \in journal : c.origin = x.origin /\ c.attempt = x.attempt - 1
            /\ \A c \in journal : c.origin = x.origin /\ c.attempt = x.attempt => c = x
        BY <2>2 DEF Chains, Numbered, InChain
      <3>2. ~ (n.origin = x.origin /\ n.attempt = x.attempt)
        BY <1>3, <2>2
      <3>3. \A c \in journal' : c.origin = x.origin /\ c.attempt = x.attempt => c = x
        BY <3>1, <3>2
      <3>4. journal \subseteq journal'
        OBVIOUS
      <3> QED BY <3>1, <3>3, <3>4
    <2> QED BY <2>1, <2>2
  <1>10. Successive'
    <2> SUFFICES ASSUME NEW x \in journal', NEW y \in journal', x.origin # None, IsPromotion(x), Follows(x, y)
                 PROVE  x.target = NextName(y.target)
      BY DEF Successive, InChain, Follows, IsPromotion
    <2>1. CASE x \in journal /\ y \in journal
      BY <2>1 DEF Chains, Successive, InChain
    <2>2. CASE x \in journal /\ y = n
      <3>1. x.origin = root.order /\ x.attempt = n.attempt + 1
        BY <1>1, <2>2 DEF Follows
      <3>2. x.attempt <= m /\ x.attempt \in Nat
        BY <1>0, <1>2, <1>3, <2>2, <3>1
      <3>3. x.attempt = (m + 1) + 1
        BY <1>6, <2>2, <3>1
      <3> QED BY <1>20, <3>2, <3>3, Zenon
    <2>3. CASE x = n /\ y = n
      <3>1. m + 1 = (m + 1) + 1
        BY <1>6, <2>3, Zenon DEF Follows
      <3> QED BY <1>20, <3>1, Zenon
    <2>4. CASE x = n /\ y \in journal
      <3>1. PICK k \in Nat : k = y.attempt
        BY <1>2, <2>4
      <3>2. y.attempt = tail.attempt
        <4>1. m + 1 = k + 1
          BY <1>6, <2>4, <3>1 DEF Follows
        <4> QED BY <1>0, <1>20, <3>1, <4>1, Zenon
      <3>3. CASE y.origin = root.order
        <4>1. y \in Chain(root.order)
          BY <2>4, <3>3 DEF Chain
        <4>2. tail \in journal /\ tail.origin = root.order
          BY <4>1 DEF Tail1, Chain
        <4>3. y = tail
          BY <1>4, <2>4, <3>2, <3>3, <4>2 DEF Chains, Numbered, InChain
        <4> QED BY <2>4, <4>3
      <3>4. CASE y.order = root.order
        <4>1. y = root /\ tail.attempt = 0
          BY <1>2, <1>4, <2>4, <3>2, <3>4
        <4>2. tail = root
          BY <1>4, <1>5, <4>1 DEF Tail1, Chains, Numbered, InChain
        <4> QED BY <2>4, <4>1, <4>2
      <3> QED BY <2>4, <3>3, <3>4 DEF Follows
    <2> QED BY <2>1, <2>2, <2>3, <2>4
  <1>11. OneKind'
    <2> SUFFICES ASSUME NEW x \in journal', NEW y \in journal', x.origin # None, y.order = x.origin
                 PROVE  IF IsPromotion(y) THEN IsPromotion(x) ELSE MovesAside(x, y)'
      BY DEF OneKind, InChain, IsPromotion
    <2>1. CASE x = n
      <3>1. y = root
        BY <1>4, <2>1 DEF Fresh1
      <3> QED BY <2>1, <3>1
    <2>2. CASE x \in journal
      <3>1. y \in journal
        BY <1>1, <2>2
      <3>2. IF IsPromotion(y) THEN IsPromotion(x) ELSE MovesAside(x, y)
        BY <2>2, <3>1 DEF Chains, OneKind, InChain
      <3>3. ASSUME MovesAside(x, y), ~ IsPromotion(y)
            PROVE  MovesAside(x, y)'
        <4>1. Owner(y)'
          BY <3>3 DEF MovesAside, Owner
        <4>2. x.origin # root.order
          BY <1>4, <3>1, <3>3
        <4>3. (\E c \in journal : c.origin = x.origin /\ c.attempt = x.attempt + 1)
              <=> \E c \in journal' : c.origin = x.origin /\ c.attempt = x.attempt + 1
          BY <4>2
        <4> QED BY <3>3, <4>1, <4>3 DEF MovesAside
      <3> QED BY <3>2, <3>3
    <2> QED BY <2>1, <2>2
  <1>12. TurnedBack'
    BY DEF Chains, TurnedBack
  <1>13. Creating1'
    <2> SUFFICES ASSUME NEW x \in journal', x.state = "intent", x.op = "create"
                 PROVE  Owner(x)' /\ State' \in {"pending", "applying", "rolling_back"}
      BY DEF Creating1, Intents
    <2>1. x \in journal /\ x \in Intents
      BY <1>7 DEF Intents
    <2>2. Owner(x) /\ State \in {"pending", "applying", "rolling_back"}
      BY <2>1 DEF Chains, Creating1
    <2> QED BY <2>2 DEF Owner
  <1> QED BY <1>8, <1>9, <1>10, <1>11, <1>12, <1>13 DEF Chains

(* A row is added: what the links named before they name still.            *)
LEMMA OwnersGrow ==
    ASSUME JournalTypes, JournalTypes', NEW n, journal' = journal \cup {n}, NEW s \in DOMAIN links, s \in DOMAIN links',
           links'[s].current = links[s].current, \E c \in journal : CurrentIs(s, c)
    PROVE  /\ \A c : CurrentIs(s, c)' <=> CurrentIs(s, c)
           /\ \A o : RootOn(s, o)' <=> RootOn(s, o)
  <1>1. PICK d \in journal : CurrentIs(s, d)
    OBVIOUS
  <1>2. \A c, d1 \in journal' : c.order = d1.order => c = d1
    BY DEF JournalTypes
  <1>3. \A c : CurrentIs(s, c)' <=> CurrentIs(s, c)
    <2>1. ASSUME NEW c, CurrentIs(s, c)'
          PROVE  CurrentIs(s, c)
      <3>1. c \in journal' /\ c.order = links[s].current
        BY <2>1 DEF CurrentIs
      <3>2. d \in journal' /\ d.order = links[s].current
        BY <1>1 DEF CurrentIs
      <3>3. c = d
        BY <1>2, <3>1, <3>2
      <3> QED BY <1>1, <3>3
    <2>2. ASSUME NEW c, CurrentIs(s, c)
          PROVE  CurrentIs(s, c)'
      BY <2>2 DEF CurrentIs, IsPromotion
    <2> QED BY <2>1, <2>2
  <1>4. ASSUME NEW o
        PROVE  RootOn(s, o)' <=> RootOn(s, o)
    <2>1. ASSUME NEW c
          PROVE  CurrentIs(s, c) => c \in journal /\ c \in journal'
      BY DEF CurrentIs
    <2>2. RootOn(s, o) <=> \E c : CurrentIs(s, c) /\ RootOrder(c) = o
      BY <2>1 DEF RootOn
    <2>3. RootOn(s, o)' <=> \E c : CurrentIs(s, c)' /\ RootOrder(c) = o
      BY <1>3, <2>1 DEF RootOn, RootOrder
    <2> QED BY <1>3, <2>2, <2>3
  <1> QED BY <1>3, <1>4

(* A promotion begins: a row and the link of its source.                   *)
LEMMA PromotionOwned ==
    ASSUME JournalTypes, JournalTypes', Chains, Owners, NEW n, Fresh1(n), journal' = journal \cup {n}, IsPromotion(n), n.origin = None,
           n.order # None, NEW s, s \notin DOMAIN links, DOMAIN links' = DOMAIN links \cup {s},
           \A z \in DOMAIN links : links'[z] = links[z],
           links'[s].current = n.order, links'[s].rollback = None,
           recoveries' = recoveries, Captured1(s), State' = State
    PROVE  Owners'
  <1>1. \A z \in DOMAIN links : Owned(z) /\ \E c \in journal : CurrentIs(z, c)
    BY DEF Owners, Owned
  <1>2. ASSUME NEW z \in DOMAIN links
        PROVE  (\A c : CurrentIs(z, c)' <=> CurrentIs(z, c)) /\ (\A o : RootOn(z, o)' <=> RootOn(z, o))
    BY <1>1, OwnersGrow
  <1>3. CurrentIs(s, n)' /\ n \in journal'
    BY DEF CurrentIs, IsPromotion
  <1>4. ASSUME NEW c, CurrentIs(s, c)'
        PROVE  c = n
    BY <1>4 DEF CurrentIs, Fresh1
  <1>5. \A o : RootOn(s, o)' <=> o = n.order
    BY <1>3, <1>4 DEF RootOn, RootOrder
  <1>6. \A z, o : RootOn(z, o) => o # n.order
    BY FreshIs DEF RootOn
  <1>7. ASSUME NEW z \in DOMAIN links'
        PROVE  Owned(z)'
    <2>1. CASE z = s
      <3>1. Captured1(s)'
        BY DEF Captured1
      <3> QED BY <1>3, <2>1, <3>1 DEF Owned
    <2>2. CASE z \in DOMAIN links
      <3>1. Captured1(z)' /\ \E c \in journal' : CurrentIs(z, c)'
        BY <1>1, <1>2, <2>2 DEF Owned, Captured1
      <3>2. ASSUME links[z].rollback # None
            PROVE  RestoredFrom(z)'
        <4>1. PICK a \in journal, c \in journal : RestoreIs(z, a) /\ CurrentIs(z, c) /\ a.path = c.target /\ c.state = "completed"
          BY <1>1, <2>2, <3>2 DEF Owned, RestoredFrom
        <4>2. RestoreIs(z, a)' /\ CurrentIs(z, c)'
          BY <1>2, <2>2, <4>1 DEF RestoreIs
        <4> QED BY <4>1, <4>2 DEF RestoredFrom
      <3>3. links'[z] = links[z]
        BY <2>2
      <3> QED BY <3>1, <3>2, <3>3 DEF Owned
    <2> QED BY <2>1, <2>2
  <1>8. Apart'
    <2> SUFFICES ASSUME NEW y \in DOMAIN links', NEW z \in DOMAIN links'
                 PROVE  /\ (\E c \in journal' : RootOn(y, RootOrder(c))' /\ RootOn(z, RootOrder(c))') => y = z
                        /\ links'[y].rollback = links'[z].rollback /\ links'[y].rollback # None => y = z
      BY DEF Apart, RootOrder
    <2>1. ASSUME NEW d \in journal', RootOn(y, RootOrder(d))', RootOn(z, RootOrder(d))'
          PROVE  y = z
      <3>1. CASE y = s /\ z = s
        BY <3>1
      <3>2. CASE y = s /\ z \in DOMAIN links
        BY <1>2, <1>5, <1>6, <2>1, <3>2
      <3>3. CASE z = s /\ y \in DOMAIN links
        BY <1>2, <1>5, <1>6, <2>1, <3>3
      <3>4. CASE y \in DOMAIN links /\ z \in DOMAIN links
        <4>1. RootOn(y, RootOrder(d)) /\ RootOn(z, RootOrder(d))
          BY <1>2, <2>1, <3>4
        <4>2. PICK c \in journal : RootOrder(c) = RootOrder(d)
          BY <4>1 DEF RootOn
        <4> QED BY <3>4, <4>1, <4>2 DEF Owners, Apart
      <3> QED BY <3>1, <3>2, <3>3, <3>4
    <2>2. ASSUME links'[y].rollback = links'[z].rollback, links'[y].rollback # None
          PROVE  y = z
      <3>1. y \in DOMAIN links /\ z \in DOMAIN links
        BY <2>2
      <3> QED BY <2>2, <3>1 DEF Owners, Apart
    <2> QED BY <2>1, <2>2
  <1>9. Linked1'
    <2> SUFFICES ASSUME NEW x \in journal'
                 PROVE  /\ IsPromotion(x) /\ x.origin = None => \E z \in DOMAIN links' : RootOn(z, x.order)'
                        /\ x.op = "restore" => State' = "rolling_back" /\ \E z \in DOMAIN links' : links'[z].rollback = x.order
      BY DEF Linked1, IsPromotion
    <2>1. CASE x = n
      <3>1. x.op # "restore"
        BY <2>1 DEF IsPromotion
      <3> QED BY <1>5, <2>1, <3>1
    <2>2. CASE x \in journal
      <3>1. IsPromotion(x) /\ x.origin = None => \E z \in DOMAIN links : RootOn(z, x.order)
        BY <2>2 DEF Owners, Linked1
      <3>2. x.op = "restore" => State = "rolling_back" /\ \E z \in DOMAIN links : links[z].rollback = x.order
        BY <2>2 DEF Owners, Linked1
      <3> QED BY <1>2, <3>1, <3>2
    <2> QED BY <2>1, <2>2
  <1> QED BY <1>7, <1>8, <1>9 DEF Owners

(* A row is added to a chain.                                              *)
LEMMA ChainOwned ==
    ASSUME Owners, NEW n, journal' = journal \cup {n}, n.origin # None, n.op # "restore", State' = State,
           DOMAIN links' = DOMAIN links, \A z \in DOMAIN links : links'[z].rollback = links[z].rollback,
           \A z \in DOMAIN links : Owned(z)', \A z \in DOMAIN links : \A o : RootOn(z, o)' <=> RootOn(z, o)
    PROVE  Owners'
  <1>1. Apart'
    <2> SUFFICES ASSUME NEW y \in DOMAIN links, NEW z \in DOMAIN links
                 PROVE  /\ (\E c \in journal' : RootOn(y, RootOrder(c))' /\ RootOn(z, RootOrder(c))') => y = z
                        /\ links'[y].rollback = links'[z].rollback /\ links'[y].rollback # None => y = z
      BY DEF Apart, RootOrder
    <2>1. ASSUME NEW d \in journal', RootOn(y, RootOrder(d))', RootOn(z, RootOrder(d))'
          PROVE  y = z
      <3>1. RootOn(y, RootOrder(d)) /\ RootOn(z, RootOrder(d))
        BY <2>1
      <3>2. PICK c \in journal : RootOrder(c) = RootOrder(d)
        BY <3>1 DEF RootOn
      <3> QED BY <3>1, <3>2 DEF Owners, Apart
    <2> QED BY <2>1 DEF Owners, Apart
  <1>2. Linked1'
    <2> SUFFICES ASSUME NEW x \in journal'
                 PROVE  /\ IsPromotion(x) /\ x.origin = None => \E z \in DOMAIN links' : RootOn(z, x.order)'
                        /\ x.op = "restore" => State' = "rolling_back" /\ \E z \in DOMAIN links' : links'[z].rollback = x.order
      BY DEF Linked1, IsPromotion
    <2>1. CASE x = n
      BY <2>1
    <2>2. CASE x \in journal
      <3>1. IsPromotion(x) /\ x.origin = None => \E z \in DOMAIN links : RootOn(z, x.order)
        BY <2>2 DEF Owners, Linked1
      <3>2. x.op = "restore" => State = "rolling_back" /\ \E z \in DOMAIN links : links[z].rollback = x.order
        BY <2>2 DEF Owners, Linked1
      <3> QED BY <3>1, <3>2
    <2> QED BY <2>1, <2>2
  <1> QED BY <1>1, <1>2 DEF Owners

LEMMA OwnedGrows ==
    ASSUME JournalTypes, JournalTypes', NEW n, journal' = journal \cup {n}, NEW s \in DOMAIN links, s \in DOMAIN links',
           links'[s] = links[s], Owned(s), recoveries' = recoveries
    PROVE  Owned(s)'
  <1>1. \E c \in journal : CurrentIs(s, c)
    BY DEF Owned
  <1>2. \A c : CurrentIs(s, c)' <=> CurrentIs(s, c)
    BY <1>1, OwnersGrow
  <1>3. Captured1(s)' /\ \E c \in journal' : CurrentIs(s, c)'
    BY <1>1, <1>2 DEF Owned, Captured1
  <1>4. ASSUME links[s].rollback # None
        PROVE  RestoredFrom(s)'
    <2>1. PICK a \in journal, c \in journal : RestoreIs(s, a) /\ CurrentIs(s, c) /\ a.path = c.target /\ c.state = "completed"
      BY <1>4 DEF Owned, RestoredFrom
    <2>2. RestoreIs(s, a)' /\ CurrentIs(s, c)'
      BY <1>2, <2>1 DEF RestoreIs
    <2> QED BY <2>1, <2>2 DEF RestoredFrom
  <1> QED BY <1>3, <1>4 DEF Owned

LEMMA CollisionOwned ==
    ASSUME JournalTypes, JournalTypes', Owners, NEW n, journal' = journal \cup {n}, IsPromotion(n), n.origin # None,
           State' = State, links' = links, recoveries' = recoveries
    PROVE  Owners'
  <1>1. \A z \in DOMAIN links : Owned(z) /\ \E c \in journal : CurrentIs(z, c)
    BY DEF Owners, Owned
  <1>2. \A z \in DOMAIN links : Owned(z)'
    BY <1>1, OwnedGrows
  <1>3. \A z \in DOMAIN links : \A o : RootOn(z, o)' <=> RootOn(z, o)
    BY <1>1, OwnersGrow
  <1>4. n.op # "restore"
    BY DEF IsPromotion
  <1> QED BY <1>2, <1>3, <1>4, ChainOwned

LEMMA LateOwned ==
    ASSUME JournalTypes, JournalTypes', Owners, NEW n, Fresh1(n), journal' = journal \cup {n}, IsPromotion(n), n.origin # None,
           State' = State, recoveries' = recoveries, DOMAIN links' = DOMAIN links, NEW s \in DOMAIN links, NEW c, CurrentIs(s, c),
           \A z \in DOMAIN links : z # s => links'[z] = links[z],
           links'[s].current = n.order, links'[s].rollback = links[s].rollback, links[s].rollback = None,
           RootOrder(n) = RootOrder(c)
    PROVE  Owners'
  <1>1. \A z \in DOMAIN links : Owned(z) /\ \E d \in journal : CurrentIs(z, d)
    BY DEF Owners, Owned
  <1>2. CurrentIs(s, n)' /\ n \in journal'
    BY DEF CurrentIs, IsPromotion
  <1>3. ASSUME NEW d, CurrentIs(s, d)'
        PROVE  d = n
    BY <1>3 DEF CurrentIs, Fresh1
  <1>4. \A o : RootOn(s, o)' <=> o = RootOrder(n)
    BY <1>2, <1>3 DEF RootOn, RootOrder
  <1>5. \A o : RootOn(s, o) <=> o = RootOrder(c)
    <2>1. \A d, e \in journal : d.order = e.order => d = e
      BY DEF JournalTypes
    <2>2. \A d : CurrentIs(s, d) => d = c
      BY <2>1 DEF CurrentIs
    <2>3. c \in journal
      BY DEF CurrentIs
    <2> QED BY <2>2, <2>3 DEF RootOn
  <1>6. ASSUME NEW z \in DOMAIN links
        PROVE  \A o : RootOn(z, o)' <=> RootOn(z, o)
    <2>1. CASE z = s
      BY <1>4, <1>5, <2>1
    <2>2. CASE z # s
      <3>1. links'[z].current = links[z].current
        BY <2>2
      <3> QED BY <1>1, <3>1, OwnersGrow
    <2> QED BY <2>1, <2>2
  <1>7. ASSUME NEW z \in DOMAIN links
        PROVE  Owned(z)'
    <2>1. CASE z = s
      <3>1. Captured1(s)'
        BY <1>1 DEF Captured1, Owned
      <3> QED BY <1>2, <2>1, <3>1 DEF Owned
    <2>2. CASE z # s
      BY <1>1, <2>2, OwnedGrows
    <2> QED BY <2>1, <2>2
  <1>8. n.op # "restore" /\ \A z \in DOMAIN links : links'[z].rollback = links[z].rollback
    BY DEF IsPromotion
  <1> QED BY <1>6, <1>7, <1>8, ChainOwned

(* A promotion is taken back: a row and the link's rollback.               *)
LEMMA RestoreOwned ==
    ASSUME JournalTypes, JournalTypes', Owners, NEW n, Fresh1(n), journal' = journal \cup {n}, n.op = "restore", n.order # None,
           State' = "rolling_back", State = "rolling_back", recoveries' = recoveries, DOMAIN links' = DOMAIN links,
           NEW s \in DOMAIN links, NEW c, CurrentIs(s, c), c.state = "completed", n.path = c.target,
           \A z \in DOMAIN links : z # s => links'[z] = links[z],
           links'[s].current = links[s].current, links'[s].rollback = n.order, links[s].rollback = None
    PROVE  Owners'
  <1>1. \A z \in DOMAIN links : Owned(z) /\ \E d \in journal : CurrentIs(z, d)
    BY DEF Owners, Owned
  <1>2. \A z \in DOMAIN links : links'[z].current = links[z].current
    OBVIOUS
  <1>3. ASSUME NEW z \in DOMAIN links
        PROVE  /\ \A d : CurrentIs(z, d)' <=> CurrentIs(z, d)
               /\ \A o : RootOn(z, o)' <=> RootOn(z, o)
    BY <1>1, <1>2, OwnersGrow
  <1>4. ASSUME NEW z \in DOMAIN links, links[z].rollback # None
        PROVE  links[z].rollback # n.order /\ z # s
    <2>1. PICK a \in journal : RestoreIs(z, a)
      BY <1>1, <1>4 DEF Owned, RestoredFrom
    <2> QED BY <1>4, <2>1 DEF RestoreIs, Fresh1
  <1>5. ASSUME NEW z \in DOMAIN links
        PROVE  Owned(z)'
    <2>1. CASE z = s
      <3>1. Captured1(s)'
        BY <1>1 DEF Captured1, Owned
      <3>2. CurrentIs(s, c)' /\ c \in journal'
        BY <1>3 DEF CurrentIs
      <3>3. RestoreIs(s, n)' /\ n \in journal'
        BY DEF RestoreIs
      <3>4. RestoredFrom(s)'
        BY <3>2, <3>3 DEF RestoredFrom
      <3> QED BY <2>1, <3>1, <3>2, <3>4 DEF Owned
    <2>2. CASE z # s
      BY <1>1, <2>2, OwnedGrows
    <2> QED BY <2>1, <2>2
  <1>6. Apart'
    <2> SUFFICES ASSUME NEW y \in DOMAIN links, NEW z \in DOMAIN links
                 PROVE  /\ (\E d \in journal' : RootOn(y, RootOrder(d))' /\ RootOn(z, RootOrder(d))') => y = z
                        /\ links'[y].rollback = links'[z].rollback /\ links'[y].rollback # None => y = z
      BY DEF Apart, RootOrder
    <2>1. ASSUME NEW d \in journal', RootOn(y, RootOrder(d))', RootOn(z, RootOrder(d))'
          PROVE  y = z
      <3>1. RootOn(y, RootOrder(d)) /\ RootOn(z, RootOrder(d))
        BY <1>3, <2>1
      <3>2. PICK x \in journal : RootOrder(x) = RootOrder(d)
        BY <3>1 DEF RootOn
      <3> QED BY <3>1, <3>2 DEF Owners, Apart
    <2>2. ASSUME links'[y].rollback = links'[z].rollback, links'[y].rollback # None
          PROVE  y = z
      <3>1. CASE y = s
        BY <1>4, <2>2, <3>1
      <3>2. CASE z = s
        BY <1>4, <2>2, <3>2
      <3>3. CASE y # s /\ z # s
        BY <2>2, <3>3 DEF Owners, Apart
      <3> QED BY <3>1, <3>2, <3>3
    <2> QED BY <2>1, <2>2
  <1>7. Linked1'
    <2> SUFFICES ASSUME NEW x \in journal'
                 PROVE  /\ IsPromotion(x) /\ x.origin = None => \E z \in DOMAIN links : RootOn(z, x.order)'
                        /\ x.op = "restore" => \E z \in DOMAIN links : links'[z].rollback = x.order
      BY DEF Linked1, IsPromotion
    <2>1. CASE x = n
      BY <2>1 DEF IsPromotion
    <2>2. CASE x \in journal
      <3>1. IsPromotion(x) /\ x.origin = None => \E z \in DOMAIN links : RootOn(z, x.order)
        BY <2>2 DEF Owners, Linked1
      <3>2. ASSUME x.op = "restore"
            PROVE  \E z \in DOMAIN links : links'[z].rollback = x.order
        <4>1. PICK z \in DOMAIN links : links[z].rollback = x.order
          BY <2>2, <3>2 DEF Owners, Linked1
        <4>2. x.order # None
          BY <2>2 DEF JournalTypes, RowOK, None
        <4> QED BY <4>1, <4>2
      <3> QED BY <1>3, <3>1, <3>2
    <2> QED BY <2>1, <2>2
  <1> QED BY <1>5, <1>6, <1>7 DEF Owners

(* A creation is given up, its object is to be moved aside.                *)
LEMMA ChainTurned ==
    ASSUME JournalTypes, Chains, NEW a \in journal, a.state = "intent", a.op = "create", a.origin = None,
           NEW r, r.order = a.order, r.op = "create", r.path = a.path, r.origin = None, r.state = "completed",
           r.outcome = "rolled_back",
           NEW n, Fresh1(n), n.op = "rename", n.origin = a.order, n.attempt = 1, n.path = a.path, n.target = Recovered(a.path, 1),
           n.outcome = "preserve_unknown", ~ IsPromotion(n),
           journal' = ((journal \ {a}) \cup {r}) \cup {n}, Intents' = {n}, rows' = rows, State' = "rolling_back"
    PROVE  Chains'
  <1>1. \A x \in journal : x.origin # None => x.origin # n.order
    BY FreshIs
  <1>2. \A x \in journal : x.order = a.order => x = a
    BY DEF JournalTypes
  <1>3. ~ IsPromotion(a) /\ ~ IsPromotion(r)
    BY DEF IsPromotion
  <1>4. \A x \in journal : x.origin # None => x.origin # a.order
    BY <1>3 DEF Chains, OneKind, InChain, MovesAside
  <1>5. a.order # None /\ a.order # n.order
    BY DEF JournalTypes, RowOK, None, Fresh1
  <1>6. ASSUME NEW x \in journal', x.origin # None
        PROVE  x = n \/ (x \in journal /\ x # a)
    BY <1>6
  <1>7. ASSUME NEW x \in journal', NEW y \in journal', x.origin # None, x # n, y.order = x.origin \/ y.origin = x.origin
        PROVE  x \in journal /\ y \in journal /\ x # a /\ y # a
    <2>1. x \in journal /\ x # a
      BY <1>6, <1>7
    <2>2. y # r /\ y # n
      BY <1>1, <1>4, <1>7, <2>1
    <2> QED BY <2>1, <2>2
  <1>8. Rooted'
    <2> SUFFICES ASSUME NEW x \in journal', x.origin # None
                 PROVE  \E y \in journal' : y.order = x.origin /\ y.origin = None
      BY DEF Rooted, InChain
    <2>1. CASE x = n
      BY <2>1
    <2>2. CASE x # n
      <3>1. x \in journal
        BY <1>6, <2>2
      <3>2. PICK y \in journal : y.order = x.origin /\ y.origin = None
        BY <3>1 DEF Chains, Rooted, InChain
      <3>3. y # a
        BY <1>4, <3>1, <3>2
      <3> QED BY <3>2, <3>3
    <2> QED BY <2>1, <2>2
  <1>9. Numbered'
    <2> SUFFICES ASSUME NEW x \in journal', x.origin # None
                 PROVE  /\ x.attempt # 0
                        /\ x.attempt = 1 \/ \E c \in journal' : c.origin = x.origin /\ c.attempt = x.attempt - 1
                        /\ \A c \in journal' : c.origin = x.origin /\ c.attempt = x.attempt => c = x
      BY DEF Numbered, InChain
    <2>1. CASE x = n
      <3>1. \A c \in journal' : c.origin = x.origin => c = x
        BY <1>4, <1>5, <2>1
      <3> QED BY <2>1, <3>1
    <2>2. CASE x # n
      <3>1. x \in journal
        BY <1>6, <2>2
      <3>2. /\ x.attempt # 0
            /\ x.attempt = 1 \/ \E c \in journal : c.origin = x.origin /\ c.attempt = x.attempt - 1
            /\ \A c \in journal : c.origin = x.origin /\ c.attempt = x.attempt => c = x
        BY <3>1 DEF Chains, Numbered, InChain
      <3>3. \A c \in journal' : c.origin = x.origin => c \in journal
        BY <1>7, <2>2
      <3>4. \A c \in journal : c.origin = x.origin => c \in journal'
        OBVIOUS
      <3> QED BY <3>2, <3>3, <3>4
    <2> QED BY <2>1, <2>2
  <1>10. Successive'
    <2> SUFFICES ASSUME NEW x \in journal', NEW y \in journal', x.origin # None, IsPromotion(x), Follows(x, y)
                 PROVE  x.target = NextName(y.target)
      BY DEF Successive, InChain, Follows, IsPromotion
    <2>1. x \in journal /\ y \in journal
      BY <1>7 DEF Follows
    <2> QED BY <2>1 DEF Chains, Successive, InChain
  <1>11. OneKind'
    <2> SUFFICES ASSUME NEW x \in journal', NEW y \in journal', x.origin # None, y.order = x.origin
                 PROVE  IF IsPromotion(y) THEN IsPromotion(x) ELSE MovesAside(x, y)'
      BY DEF OneKind, InChain, IsPromotion
    <2>1. CASE x = n
      <3>1. y = r
        BY <1>2, <1>5, <2>1
      <3>2. Owner(r)'
        <4>1. Owner(a)
          BY DEF Chains, Creating1, Intents
        <4> QED BY <4>1 DEF Owner
      <3>3. \A c \in journal' : c.origin = x.origin => c = n
        BY <1>4, <1>5, <2>1
      <3>4. ~ \E c \in journal' : c.origin = x.origin /\ c.attempt = x.attempt + 1
        BY <2>1, <3>3
      <3> QED BY <1>3, <2>1, <3>1, <3>2, <3>4 DEF MovesAside
    <2>2. CASE x # n
      <3>1. x \in journal /\ y \in journal
        BY <1>7, <2>2
      <3>2. IF IsPromotion(y) THEN IsPromotion(x) ELSE MovesAside(x, y)
        BY <3>1 DEF Chains, OneKind, InChain
      <3>3. ASSUME MovesAside(x, y)
            PROVE  MovesAside(x, y)'
        <4>1. Owner(y)'
          BY <3>3 DEF MovesAside, Owner
        <4>2. \A c : (c \in journal' /\ c.origin = x.origin) <=> (c \in journal /\ c.origin = x.origin)
          BY <1>7, <2>2
        <4>3. (\E c \in journal : c.origin = x.origin /\ c.attempt = x.attempt + 1)
              <=> \E c \in journal' : c.origin = x.origin /\ c.attempt = x.attempt + 1
          BY <4>2
        <4> QED BY <3>3, <4>1, <4>3 DEF MovesAside
      <3> QED BY <3>2, <3>3
    <2> QED BY <2>1, <2>2
  <1>12. TurnedBack'
    <2> SUFFICES ASSUME NEW x \in journal', x.outcome = "rolled_back"
                 PROVE  \E c \in journal' : c.origin = x.order
      BY DEF TurnedBack
    <2>1. CASE x = r
      BY <2>1
    <2>2. CASE x \in journal
      <3>1. PICK c \in journal : c.origin = x.order
        BY <2>2 DEF Chains, TurnedBack
      <3>2. c # a
        BY <2>2, <3>1 DEF JournalTypes, RowOK, None
      <3> QED BY <3>1, <3>2
    <2> QED BY <2>1, <2>2
  <1>13. Creating1'
    BY DEF Creating1
  <1> QED BY <1>8, <1>9, <1>10, <1>11, <1>12, <1>13 DEF Chains

(* The object is to be moved to the next name.                             *)
LEMMA ChainAdvanced ==
    ASSUME JournalTypes, Chains, NEW a \in journal, a.origin # None, ~ IsPromotion(a), a.outcome # "collision",
           NEW r, r.order = a.order, r.op = "rename", r.path = a.path, r.target = a.target, r.origin = a.origin, r.attempt = a.attempt,
           r.outcome = "collision", ~ IsPromotion(r), r.state = "completed",
           NEW m \in Nat, a.attempt = m,
           NEW n, Fresh1(n), n.op = "rename", n.origin = a.origin, n.attempt = m + 1, n.path = a.path,
           n.target = Recovered(a.path, m + 1), n.outcome = "preserve_unknown", ~ IsPromotion(n),
           journal' = ((journal \ {a}) \cup {r}) \cup {n}, Intents' = {n}, rows' = rows, State' = State
    PROVE  Chains'
  <1>1. \A x \in journal : x.origin # None => x.origin # n.order
    BY FreshIs
  <1>2. \A x, y \in journal : x.order = y.order => x = y
    BY DEF JournalTypes
  <1>3. PICK root \in journal : root.order = a.origin /\ root.origin = None
    BY DEF Chains, Rooted, InChain
  <1>4. ~ IsPromotion(root) /\ MovesAside(a, root)
    BY <1>3 DEF Chains, OneKind, InChain
  <1>5. root # a /\ \A y \in journal' : y.order = a.origin => y = root
    BY <1>1, <1>2, <1>3
  <1>6. \A c \in journal : c.origin = a.origin => c.attempt # m + 1
    BY <1>4 DEF MovesAside
  <1>7. m + 1 \in Nat /\ m + 1 # 0 /\ (m + 1) - 1 = m /\ m + 1 # (m + 1) + 1
        /\ \A k \in Nat : m + 1 = k + 1 => m = k
    BY Counting, Zenon
  <1>8. \A x \in journal : x.attempt \in Nat
    BY DEF JournalTypes, RowOK
  <1>9. ASSUME NEW c \in journal, c.origin = a.origin
        PROVE  c.attempt # (m + 1) + 1
    <2>1. ASSUME c.attempt = (m + 1) + 1
          PROVE  FALSE
      <3>1. PICK k : k = m + 1
        OBVIOUS
      <3>2. k \in Nat /\ k + 1 # 1 /\ (k + 1) - 1 = k
        <4>1. k \in Nat /\ k # 0
          BY <1>7, <3>1
        <4> HIDE <1>9, <2>1
        <4> QED BY <4>1
      <3>3. c.attempt = k + 1
        BY <2>1, <3>1
      <3>4. PICK d \in journal : d.origin = c.origin /\ d.attempt = k
        BY <1>9, <3>2, <3>3 DEF Chains, Numbered, InChain
      <3> QED BY <1>6, <1>9, <3>1, <3>4
    <2> QED BY <2>1
  <1>10. ASSUME NEW x \in journal', x.origin # None
         PROVE  x = n \/ x = r \/ (x \in journal /\ x # a)
    OBVIOUS
  <1>11. ASSUME NEW c \in journal
         PROVE  \E d \in journal' : d.origin = c.origin /\ d.attempt = c.attempt
    BY DEF Replace
  <1>12. ASSUME NEW d \in journal', d # n
         PROVE  \E c \in journal : c.origin = d.origin /\ c.attempt = d.attempt /\ c.order = d.order
    BY <1>12
  <1>13. \A x \in journal' : \A y \in journal' : x.order = y.order => x = y
    BY <1>2 DEF Fresh1
  <1>14. Rooted'
    <2> SUFFICES ASSUME NEW x \in journal', x.origin # None
                 PROVE  \E y \in journal' : y.order = x.origin /\ y.origin = None
      BY DEF Rooted, InChain
    <2>1. CASE x = n \/ x = r
      BY <1>3, <1>5, <2>1
    <2>2. CASE x \in journal
      <3>1. PICK y \in journal : y.order = x.origin /\ y.origin = None
        BY <2>2 DEF Chains, Rooted, InChain
      <3> QED BY <3>1
    <2> QED BY <2>1, <2>2
  <1>15. Numbered'
    <2> SUFFICES ASSUME NEW x \in journal', x.origin # None
                 PROVE  /\ x.attempt # 0
                        /\ x.attempt = 1 \/ \E c \in journal' : c.origin = x.origin /\ c.attempt = x.attempt - 1
                        /\ \A c \in journal' : c.origin = x.origin /\ c.attempt = x.attempt => c = x
      BY DEF Numbered, InChain
    <2>1. CASE x = n
      <3>1. \E c \in journal' : c.origin = x.origin /\ c.attempt = x.attempt - 1
        BY <1>7, <2>1
      <3>2. \A c \in journal' : c.origin = x.origin /\ c.attempt = x.attempt => c = x
        BY <1>6, <1>12, <2>1
      <3> QED BY <1>7, <2>1, <3>1, <3>2
    <2>2. CASE x # n
      <3>1. PICK y \in journal : y.origin = x.origin /\ y.attempt = x.attempt /\ y.order = x.order
        BY <1>12, <2>2
      <3>2. /\ y.attempt # 0
            /\ y.attempt = 1 \/ \E c \in journal : c.origin = y.origin /\ c.attempt = y.attempt - 1
            /\ \A c \in journal : c.origin = y.origin /\ c.attempt = y.attempt => c = y
        BY <3>1 DEF Chains, Numbered, InChain
      <3>3. x.attempt = 1 \/ \E c \in journal' : c.origin = x.origin /\ c.attempt = x.attempt - 1
        BY <1>11, <3>1, <3>2
      <3>4. ASSUME NEW c \in journal', c.origin = x.origin, c.attempt = x.attempt
            PROVE  c = x
        <4>1. c # n
          BY <1>6, <3>1, <3>4
        <4>2. PICK d \in journal : d.origin = c.origin /\ d.attempt = c.attempt /\ d.order = c.order
          BY <1>12, <4>1
        <4>3. d = y
          BY <3>1, <3>2, <3>4, <4>2
        <4> QED BY <1>13, <3>1, <4>2, <4>3
      <3> QED BY <3>1, <3>2, <3>3, <3>4
    <2> QED BY <2>1, <2>2
  <1>16. Successive'
    <2> SUFFICES ASSUME NEW x \in journal', NEW y \in journal', x.origin # None, IsPromotion(x), Follows(x, y)
                 PROVE  x.target = NextName(y.target)
      BY DEF Successive, InChain, Follows, IsPromotion
    <2>1. x \in journal /\ x # n /\ x # r
      BY <1>10
    <2>2. y # n
      <3>1. ASSUME y = n
            PROVE  FALSE
        <4>1. x.origin = a.origin /\ x.attempt = (m + 1) + 1
          BY <1>1, <2>1, <3>1 DEF Follows
        <4> QED BY <1>9, <2>1, <4>1
      <3> QED BY <3>1
    <2>3. PICK c \in journal : c.origin = y.origin /\ c.attempt = y.attempt /\ c.order = y.order /\ c.target = y.target
      BY <2>2
    <2>4. Follows(x, c)
      BY <2>3 DEF Follows
    <2> QED BY <2>1, <2>3, <2>4 DEF Chains, Successive, InChain
  <1>17. OneKind'
    <2> SUFFICES ASSUME NEW x \in journal', NEW y \in journal', x.origin # None, y.order = x.origin
                 PROVE  IF IsPromotion(y) THEN IsPromotion(x) ELSE MovesAside(x, y)'
      BY DEF OneKind, InChain, IsPromotion
    <2>1. \A z : Owner(z)' <=> Owner(z)
      BY DEF Owner
    <2>2. CASE x = n
      <3>1. y = root
        BY <1>5, <2>2
      <3>2. \A c \in journal' : c.origin = x.origin => c.attempt # (m + 1) + 1
        <4>1. ASSUME NEW c \in journal', c.origin = x.origin
              PROVE  c.attempt # (m + 1) + 1
          <5>1. CASE c = n
            BY <1>7, <5>1
          <5>2. CASE c # n
            <6>1. PICK d \in journal : d.origin = c.origin /\ d.attempt = c.attempt
              BY <1>12, <5>2
            <6> QED BY <1>9, <2>2, <4>1, <6>1
          <5> QED BY <5>1, <5>2
        <4> QED BY <4>1
      <3>3. ~ \E c \in journal' : c.origin = x.origin /\ c.attempt = x.attempt + 1
        BY <2>2, <3>2
      <3> QED BY <1>4, <2>1, <2>2, <3>1, <3>3 DEF MovesAside
    <2>3. CASE x = r
      <3>1. y = root
        BY <1>5, <2>3
      <3>2. n \in journal' /\ n.origin = x.origin /\ n.attempt = x.attempt + 1
        BY <2>3
      <3> QED BY <1>4, <2>1, <2>3, <3>1, <3>2 DEF MovesAside
    <2>4. CASE x \in journal /\ x # a
      <3>1. y # n
        BY <1>1, <2>4
      <3>2. CASE y = r
        <4>1. a.origin = None
          <5>1. PICK z \in journal : z.order = x.origin /\ z.origin = None
            BY <2>4 DEF Chains, Rooted, InChain
          <5>2. z = a
            BY <1>2, <3>2, <5>1
          <5> QED BY <5>1, <5>2
        <4> QED BY <4>1
      <3>3. CASE y \in journal
        <4>1. IF IsPromotion(y) THEN IsPromotion(x) ELSE MovesAside(x, y)
          BY <2>4, <3>3 DEF Chains, OneKind, InChain
        <4>2. ASSUME MovesAside(x, y)
              PROVE  MovesAside(x, y)'
          <5>1. ASSUME NEW c \in journal, c.origin = x.origin, c.attempt = x.attempt + 1
                PROVE  \E d \in journal' : d.origin = x.origin /\ d.attempt = x.attempt + 1
            BY <1>11, <5>1
          <5>2. ASSUME NEW d \in journal', d.origin = x.origin, d.attempt = x.attempt + 1
                PROVE  \E c \in journal : c.origin = x.origin /\ c.attempt = x.attempt + 1
            <6>1. CASE d # n
              BY <1>12, <5>2, <6>1
            <6>2. CASE d = n
              <7>1. PICK k \in Nat : k = x.attempt
                BY <1>8, <2>4
              <7>2. m + 1 = k + 1 /\ x.origin = a.origin
                BY <5>2, <6>2, <7>1
              <7>3. x.attempt = m
                BY <1>7, <7>1, <7>2, Zenon
              <7>4. x = a
                BY <2>4, <7>2, <7>3 DEF Chains, Numbered, InChain
              <7> QED BY <2>4, <7>4
            <6> QED BY <6>1, <6>2
          <5>3. (\E c \in journal : c.origin = x.origin /\ c.attempt = x.attempt + 1)
                <=> \E c \in journal' : c.origin = x.origin /\ c.attempt = x.attempt + 1
            BY <5>1, <5>2
          <5> QED BY <2>1, <4>2, <5>3 DEF MovesAside
        <4> QED BY <4>1, <4>2
      <3> QED BY <2>4, <3>1, <3>2, <3>3
    <2> QED BY <1>10, <2>2, <2>3, <2>4
  <1>18. TurnedBack'
    <2> SUFFICES ASSUME NEW x \in journal', x.outcome = "rolled_back"
                 PROVE  \E c \in journal' : c.origin = x.order
      BY DEF TurnedBack
    <2>1. x \in journal
      OBVIOUS
    <2>2. PICK c \in journal : c.origin = x.order
      BY <2>1 DEF Chains, TurnedBack
    <2> QED BY <1>11, <2>2
  <1>19. Creating1'
    BY DEF Creating1
  <1> QED BY <1>14, <1>15, <1>16, <1>17, <1>18, <1>19 DEF Chains

LEMMA RootOrderIs ==
    ASSUME JournalTypes, Chains, NEW a \in journal
    PROVE  RootOf(a) \in journal /\ RootOf(a).order = RootOrder(a)
  <1>1. CASE a.origin = None
    BY <1>1 DEF RootOf, RootOrder
  <1>2. CASE a.origin # None
    <2>1. PICK r \in journal : r.order = a.origin /\ r.origin = None
      BY <1>2 DEF Chains, Rooted, InChain
    <2>2. Row(r.order) = r
      BY RowIs
    <2> QED BY <1>2, <2>1, <2>2 DEF RootOf, RootOrder
  <1> QED BY <1>1, <1>2

(* A restore is in no chain and begins none.                               *)
LEMMA RestoreApart ==
    ASSUME JournalTypes, Chains, NEW a \in journal, a.op = "restore"
    PROVE  a.origin = None /\ \A c \in journal : c # a => RootOrder(c) # a.order
  <1>1. a.origin = None
    <2> SUFFICES ASSUME a.origin # None
                 PROVE  FALSE
      OBVIOUS
    <2>1. PICK r \in journal : r.order = a.origin /\ r.origin = None
      BY DEF Chains, Rooted, InChain
    <2> QED BY <2>1 DEF Chains, OneKind, InChain, MovesAside, IsPromotion
  <1>2. ASSUME NEW c \in journal, c # a, RootOrder(c) = a.order
        PROVE  FALSE
    <2>1. c.origin # None /\ c.origin = a.order
      BY <1>2 DEF RootOrder, JournalTypes
    <2> QED BY <2>1 DEF Chains, OneKind, InChain, MovesAside, IsPromotion
  <1> QED BY <1>1, <1>2

Gone1(mine, a) == \E s \in mine : RootOn(s, RootOrder(a)) \/ a.order = links[s].rollback
LEMMA GoneIs ==
    ASSUME JournalTypes, Chains, Owners, NEW mine, mine \subseteq DOMAIN links
    PROVE  /\ \A a \in journal : Gone1(mine, a) <=>
                  \E s \in mine : RootOf(a) = RootOf(Row(links[s].current)) \/ a.order = links[s].rollback
           /\ \A a \in journal : a.op = "restore" => (Gone1(mine, a) <=> \E s \in mine : a.order = links[s].rollback)
           /\ \A a \in journal : a.op # "restore" => (Gone1(mine, a) <=> \E s \in mine : RootOn(s, RootOrder(a)))
  <1>1. ASSUME NEW a \in journal, NEW s \in mine
        PROVE  RootOf(a) = RootOf(Row(links[s].current)) <=> RootOn(s, RootOrder(a))
    <2>1. PICK c \in journal : CurrentIs(s, c)
      BY DEF Owners, Owned
    <2>2. Row(links[s].current) = c
      BY <2>1, RowIs DEF CurrentIs
    <2>3. /\ RootOf(a) \in journal /\ RootOf(a).order = RootOrder(a)
          /\ RootOf(c) \in journal /\ RootOf(c).order = RootOrder(c)
      BY RootOrderIs
    <2>4. RootOn(s, RootOrder(a)) <=> RootOrder(c) = RootOrder(a)
      <3>1. \A d \in journal : CurrentIs(s, d) => d = c
        BY <2>1 DEF CurrentIs, JournalTypes
      <3> QED BY <2>1, <3>1 DEF RootOn
    <2> QED BY <2>2, <2>3, <2>4 DEF JournalTypes
  <1>2. ASSUME NEW a \in journal, a.op = "restore", NEW s \in mine
        PROVE  ~ RootOn(s, RootOrder(a))
    <2>1. a.origin = None /\ \A c \in journal : c # a => RootOrder(c) # a.order
      BY <1>2, RestoreApart
    <2>2. RootOrder(a) = a.order
      BY <2>1 DEF RootOrder
    <2>3. ~ CurrentIs(s, a)
      BY <1>2 DEF CurrentIs, IsPromotion
    <2> QED BY <2>1, <2>2, <2>3 DEF RootOn
  <1>3. ASSUME NEW a \in journal, a.op # "restore", NEW s \in mine
        PROVE  a.order # links[s].rollback
    <2>1. CASE links[s].rollback = None
      BY <2>1 DEF JournalTypes, RowOK, None
    <2>2. CASE links[s].rollback # None
      <3>1. PICK x \in journal : RestoreIs(s, x)
        BY <2>2 DEF Owners, Owned, RestoredFrom
      <3> QED BY <1>3, <3>1 DEF RestoreIs, JournalTypes
    <2> QED BY <2>1, <2>2
  <1>4. \A a \in journal : Gone1(mine, a) <=>
            \E s \in mine : RootOf(a) = RootOf(Row(links[s].current)) \/ a.order = links[s].rollback
    BY <1>1 DEF Gone1
  <1>5. \A a \in journal : a.op = "restore" => (Gone1(mine, a) <=> \E s \in mine : a.order = links[s].rollback)
    BY <1>2 DEF Gone1
  <1>6. \A a \in journal : a.op # "restore" => (Gone1(mine, a) <=> \E s \in mine : RootOn(s, RootOrder(a)))
    BY <1>3 DEF Gone1
  <1> QED BY <1>4, <1>5, <1>6

LEMMA ChainsGone ==
    ASSUME JournalTypes, Chains, Owners, NEW mine, mine \subseteq DOMAIN links,
           journal' = {a \in journal : ~ Gone1(mine, a)}, rows' = rows, State' = State
    PROVE  Chains'
  <1>1. \A a, c \in journal : a.order = c.order => a = c
    BY DEF JournalTypes
  <1>2. ASSUME NEW a \in journal, NEW c \in journal, a.origin # None, RootOrder(c) = a.origin
        PROVE  a \in journal' <=> c \in journal'
    <2>1. a.op # "restore"
      BY <1>2, RestoreApart
    <2>2. c.op # "restore"
      <3> SUFFICES ASSUME c.op = "restore"
                   PROVE  FALSE
        OBVIOUS
      <3>1. c.origin = None /\ \A d \in journal : d # c => RootOrder(d) # c.order
        BY RestoreApart
      <3>2. RootOrder(a) = c.order
        BY <1>2, <3>1 DEF RootOrder
      <3> QED BY <1>2, <3>1, <3>2
    <2>3. RootOrder(a) = RootOrder(c)
      BY <1>2 DEF RootOrder
    <2> QED BY <2>1, <2>2, <2>3, GoneIs
  <1>3. \A a, c \in journal : a.origin # None /\ c.origin = a.origin => (a \in journal' <=> c \in journal')
    BY <1>2 DEF RootOrder
  <1>4. \A a, r \in journal : a.origin # None /\ r.order = a.origin /\ r.origin = None => (a \in journal' <=> r \in journal')
    BY <1>2 DEF RootOrder
  <1>5. journal' \subseteq journal
    OBVIOUS
  <1>6. Rooted'
    <2> SUFFICES ASSUME NEW a \in journal', a.origin # None
                 PROVE  \E r \in journal' : r.order = a.origin /\ r.origin = None
      BY DEF Rooted, InChain
    <2>1. a \in journal
      BY <1>5
    <2>2. PICK r \in journal : r.order = a.origin /\ r.origin = None
      BY <2>1 DEF Chains, Rooted, InChain
    <2> QED BY <1>4, <2>1, <2>2
  <1>7. Numbered'
    <2> SUFFICES ASSUME NEW a \in journal', a.origin # None
                 PROVE  /\ a.attempt # 0
                        /\ a.attempt = 1 \/ \E c \in journal' : c.origin = a.origin /\ c.attempt = a.attempt - 1
                        /\ \A c \in journal' : c.origin = a.origin /\ c.attempt = a.attempt => c = a
      BY DEF Numbered, InChain
    <2>1. a \in journal
      BY <1>5
    <2>2. /\ a.attempt # 0
          /\ a.attempt = 1 \/ \E c \in journal : c.origin = a.origin /\ c.attempt = a.attempt - 1
          /\ \A c \in journal : c.origin = a.origin /\ c.attempt = a.attempt => c = a
      BY <2>1 DEF Chains, Numbered, InChain
    <2>3. \A c \in journal : c.origin = a.origin => c \in journal'
      BY <1>3, <2>1
    <2> QED BY <1>5, <2>2, <2>3
  <1>8. Successive'
    <2> SUFFICES ASSUME NEW x \in journal', NEW y \in journal', x.origin # None, IsPromotion(x), Follows(x, y)
                 PROVE  x.target = NextName(y.target)
      BY DEF Successive, InChain, Follows, IsPromotion
    <2> QED BY <1>5 DEF Chains, Successive, InChain
  <1>9. OneKind'
    <2> SUFFICES ASSUME NEW x \in journal', NEW y \in journal', x.origin # None, y.order = x.origin
                 PROVE  IF IsPromotion(y) THEN IsPromotion(x) ELSE MovesAside(x, y)'
      BY DEF OneKind, InChain, IsPromotion
    <2>1. x \in journal /\ y \in journal
      BY <1>5
    <2>2. IF IsPromotion(y) THEN IsPromotion(x) ELSE MovesAside(x, y)
      BY <2>1 DEF Chains, OneKind, InChain
    <2>3. ASSUME MovesAside(x, y)
          PROVE  MovesAside(x, y)'
      <3>1. (\E c \in journal : c.origin = x.origin /\ c.attempt = x.attempt + 1)
            <=> \E c \in journal' : c.origin = x.origin /\ c.attempt = x.attempt + 1
        BY <1>3, <1>5, <2>1
      <3> QED BY <2>3, <3>1 DEF MovesAside, Owner
    <2> QED BY <2>2, <2>3
  <1>10. TurnedBack'
    <2> SUFFICES ASSUME NEW a \in journal', a.outcome = "rolled_back"
                 PROVE  \E c \in journal' : c.origin = a.order
      BY DEF TurnedBack
    <2>1. a \in journal
      BY <1>5
    <2>2. PICK c \in journal : c.origin = a.order
      BY <2>1 DEF Chains, TurnedBack
    <2>3. c.origin # None
      BY <2>1, <2>2 DEF JournalTypes, RowOK, None
    <2>4. a.origin = None
      BY <1>1, <2>1, <2>2, <2>3 DEF Chains, Rooted, InChain
    <2> QED BY <1>4, <2>1, <2>2, <2>3, <2>4
  <1>11. Creating1'
    <2> SUFFICES ASSUME NEW x \in journal', x.state = "intent", x.op = "create"
                 PROVE  Owner(x)' /\ State' \in {"pending", "applying", "rolling_back"}
      BY DEF Creating1, Intents
    <2>1. x \in Intents
      BY <1>5 DEF Intents
    <2> QED BY <2>1 DEF Chains, Creating1, Owner
  <1> QED BY <1>6, <1>7, <1>8, <1>9, <1>10, <1>11 DEF Chains

LEMMA OwnersGone ==
    ASSUME JournalTypes, Chains, Owners, NEW p, NEW mine, mine = {s \in DOMAIN links : Top(s) = p},
           journal' = {a \in journal : ~ Gone1(mine, a)}, State' = State, recoveries' = Without(recoveries, p),
           DOMAIN links' = DOMAIN links \ mine, \A s \in DOMAIN links' : links'[s] = links[s]
    PROVE  Owners'
  <1>1. \A a, c \in journal : a.order = c.order => a = c
    BY DEF JournalTypes
  <1>2. journal' \subseteq journal /\ mine \subseteq DOMAIN links /\ DOMAIN links' \subseteq DOMAIN links
        /\ \A s \in DOMAIN links' : s \notin mine
    OBVIOUS
  <1>3. ASSUME NEW s \in DOMAIN links', NEW c \in journal, CurrentIs(s, c)
        PROVE  c \in journal'
    <2>1. c.op # "restore" /\ RootOn(s, RootOrder(c))
      BY <1>2, <1>3 DEF CurrentIs, IsPromotion, RootOn
    <2>2. ~ \E z \in mine : RootOn(z, RootOrder(c))
      BY <1>2, <2>1 DEF Owners, Apart
    <2> QED BY <1>2, <2>1, <2>2, GoneIs
  <1>4. ASSUME NEW s \in DOMAIN links'
        PROVE  \A c : CurrentIs(s, c)' <=> CurrentIs(s, c)
    <2>1. ASSUME NEW c, CurrentIs(s, c)'
          PROVE  CurrentIs(s, c)
      BY <1>2, <2>1 DEF CurrentIs, IsPromotion
    <2>2. ASSUME NEW c, CurrentIs(s, c)
          PROVE  CurrentIs(s, c)'
      <3>1. c \in journal'
        BY <1>3, <2>2 DEF CurrentIs
      <3> QED BY <2>2, <3>1 DEF CurrentIs, IsPromotion
    <2> QED BY <2>1, <2>2
  <1>5. ASSUME NEW s \in DOMAIN links', NEW o
        PROVE  RootOn(s, o)' <=> RootOn(s, o)
    BY <1>2, <1>4 DEF RootOn, CurrentIs, RootOrder
  <1>6. ASSUME NEW s \in DOMAIN links'
        PROVE  Owned(s)'
    <2>1. Owned(s) /\ s \in DOMAIN links /\ Top(s) # p
      BY <1>2 DEF Owners
    <2>2. \E c \in journal' : CurrentIs(s, c)'
      BY <1>3, <1>4, <2>1 DEF Owned
    <2>3. Captured1(s)'
      BY <2>1 DEF Owned, Captured1, Without
    <2>4. ASSUME links'[s].rollback # None
          PROVE  RestoredFrom(s)'
      <3>1. PICK a \in journal, c \in journal : RestoreIs(s, a) /\ CurrentIs(s, c) /\ a.path = c.target /\ c.state = "completed"
        BY <2>1, <2>4 DEF Owned, RestoredFrom
      <3>2. ~ \E z \in mine : a.order = links[z].rollback
        BY <1>2, <2>1, <2>4, <3>1 DEF Owners, Apart, RestoreIs
      <3>3. a \in journal'
        BY <1>2, <3>1, <3>2, GoneIs DEF RestoreIs
      <3>4. c \in journal' /\ CurrentIs(s, c)' /\ RestoreIs(s, a)'
        BY <1>3, <1>4, <3>1, <3>3 DEF RestoreIs
      <3> QED BY <3>1, <3>3, <3>4 DEF RestoredFrom
    <2> QED BY <2>2, <2>3, <2>4 DEF Owned
  <1>7. Apart'
    <2> SUFFICES ASSUME NEW s \in DOMAIN links', NEW z \in DOMAIN links'
                 PROVE  /\ (\E c \in journal' : RootOn(s, RootOrder(c))' /\ RootOn(z, RootOrder(c))') => s = z
                        /\ links'[s].rollback = links'[z].rollback /\ links'[s].rollback # None => s = z
      BY DEF Apart, RootOrder
    <2>1. ASSUME NEW c \in journal', RootOn(s, RootOrder(c))', RootOn(z, RootOrder(c))'
          PROVE  s = z
      BY <1>2, <1>5, <2>1 DEF Owners, Apart
    <2> QED BY <1>2, <2>1 DEF Owners, Apart
  <1>8. Linked1'
    <2> SUFFICES ASSUME NEW a \in journal'
                 PROVE  /\ IsPromotion(a) /\ a.origin = None => \E s \in DOMAIN links' : RootOn(s, a.order)'
                        /\ a.op = "restore" => State' = "rolling_back" /\ \E s \in DOMAIN links' : links'[s].rollback = a.order
      BY DEF Linked1, IsPromotion
    <2>1. a \in journal /\ ~ Gone1(mine, a)
      OBVIOUS
    <2>2. ASSUME IsPromotion(a), a.origin = None
          PROVE  \E s \in DOMAIN links' : RootOn(s, a.order)'
      <3>1. PICK s \in DOMAIN links : RootOn(s, a.order)
        BY <2>1, <2>2 DEF Owners, Linked1
      <3>2. RootOrder(a) = a.order
        BY <2>2 DEF RootOrder
      <3>3. s \notin mine
        BY <2>1, <3>1, <3>2 DEF Gone1
      <3> QED BY <1>5, <3>1, <3>3
    <2>3. ASSUME a.op = "restore"
          PROVE  State' = "rolling_back" /\ \E s \in DOMAIN links' : links'[s].rollback = a.order
      <3>1. PICK s \in DOMAIN links : links[s].rollback = a.order
        BY <2>1, <2>3 DEF Owners, Linked1
      <3>2. s \notin mine
        BY <2>1, <3>1 DEF Gone1
      <3> QED BY <2>1, <2>3, <3>1, <3>2 DEF Owners, Linked1
    <2> QED BY <2>2, <2>3
  <1> QED BY <1>6, <1>7, <1>8 DEF Owners

(***************************************************************************)
(* Course: where the process is, besides.  Without a pending checkout      *)
(* nothing is saved of one; a bind that has recovered is pending or rolls  *)
(* back; what a cleanup has passed is no longer captured.                  *)
(***************************************************************************)
Resting == State = "none" => pending = NoPending
Binding == run.cmd = "bind" /\ run.stage # "recover" => State \in {"pending", "rolling_back"}
Consumed1 == run.stage \in {"cleanup", "hidden"} =>
                 \A i \in 1 .. run.at - 1 : i <= Len(Tops) => Tops[i].path \notin DOMAIN recoveries
ConsumedAll == run.stage \in {"root", "clear"} => DOMAIN recoveries = {}
Course == Resting /\ Binding /\ Consumed1 /\ ConsumedAll
CInv == Chains /\ Owners /\ Course
Ready == IInv /\ IInv' /\ CInv /\ scenario' = scenario

LEMMA ReadyIs ==
    ASSUME Ready
    PROVE  /\ IInv /\ IInv' /\ CInv /\ Chains /\ Owners /\ Course /\ scenario' = scenario /\ scenario \in Scenarios
           /\ Tables /\ Types /\ JournalTypes /\ JournalTypes' /\ RunTypes /\ Stages /\ Places /\ Tops' = Tops
           /\ \A s \in DOMAIN links : s \in Sources /\ LinkOK(links[s])
  BY DEF Ready, IInv, CInv, Tables, Types, Worlds, Control, LinksTypes, Tops

(* A command ends.                                                         *)
LEMMA CourseEnds ==
    ASSUME run' = NoRun, Resting'
    PROVE  Course'
  BY DEF NoRun, Course, Binding, Consumed1, ConsumedAll

(* The process stays where it is.                                          *)
LEMMA CourseStays ==
    ASSUME Ready, Resting', run'.cmd = run.cmd, run'.stage = run.stage, run'.at = run.at,
           run.stage \in {"cleanup", "hidden", "root", "clear"} => DOMAIN recoveries' \subseteq DOMAIN recoveries,
           State' = State \/ State' = "rolling_back"
    PROVE  Course'
  <1>1. Course /\ Tops' = Tops
    BY ReadyIs
  <1>2. Binding'
    BY <1>1 DEF Course, Binding
  <1>3. Consumed1'
    BY <1>1 DEF Course, Consumed1
  <1>4. ConsumedAll'
    BY <1>1 DEF Course, ConsumedAll
  <1> QED BY <1>2, <1>3, <1>4 DEF Course

(* It goes on.                                                             *)
LEMMA CourseGoes ==
    ASSUME Ready, Resting', NEW stage, NEW at \in Nat, Goto(stage, at),
           run.cmd = "bind" => State' \in {"pending", "rolling_back"},
           stage \in {"cleanup", "hidden"} =>
               at = 1 \/ (/\ run.stage = stage /\ at = run.at + 1 /\ DOMAIN recoveries' \subseteq DOMAIN recoveries
                          /\ run.at <= Len(Tops) => Tops[run.at].path \notin DOMAIN recoveries'),
           stage \in {"root", "clear"} => DOMAIN recoveries' = {}
    PROVE  Course'
  <1>1. Course /\ Tops' = Tops /\ RunTypes
    BY ReadyIs
  <1>2. run'.cmd = run.cmd /\ run'.stage = stage /\ run'.at = at /\ run.at \in Nat
    BY <1>1 DEF Goto, RunTypes
  <1>3. Binding'
    BY <1>2 DEF Binding
  <1>4. Consumed1'
    <2> SUFFICES ASSUME stage \in {"cleanup", "hidden"}, NEW i \in 1 .. at - 1, i <= Len(Tops)
                 PROVE  Tops[i].path \notin DOMAIN recoveries'
      BY <1>1, <1>2 DEF Consumed1
    <2>1. at # 1
      OBVIOUS
    <2>2. /\ run.stage = stage /\ at = run.at + 1 /\ DOMAIN recoveries' \subseteq DOMAIN recoveries
          /\ run.at <= Len(Tops) => Tops[run.at].path \notin DOMAIN recoveries'
      BY <2>1
    <2>3. i = run.at \/ i \in 1 .. run.at - 1
      BY <1>2, <2>2
    <2>4. CASE i \in 1 .. run.at - 1
      <3>1. Tops[i].path \notin DOMAIN recoveries
        BY <1>1, <2>2, <2>4 DEF Course, Consumed1
      <3> QED BY <2>2, <3>1
    <2> QED BY <2>2, <2>3, <2>4
  <1>5. ConsumedAll'
    BY <1>2 DEF ConsumedAll
  <1> QED BY <1>3, <1>4, <1>5 DEF Course

(* Nothing is written to the journal or the links.                         *)
LEMMA SameJournal ==
    ASSUME Ready, journal' = journal, links' = links, OwnersKept, CapturedKept, StateKept
    PROVE  Chains' /\ Owners'
  <1>1. JournalTypes /\ JournalTypes' /\ Chains /\ Owners
    BY ReadyIs
  <1>2. Matched
    BY Itself DEF Matched
  <1> QED BY <1>1, <1>2, Unaltered

LEMMA SameState == State' = State => StateKept
  BY DEF StateKept
LEMMA RestingKept == Ready /\ pending' = pending => Resting' /\ State' = State
  BY ReadyIs DEF Resting, Course, State, NoPending

LEMMA SameDatabase ==
    ASSUME Ready, db' = db
    PROVE  /\ Chains' /\ Owners' /\ Resting' /\ State' = State
           /\ journal' = journal /\ recoveries' = recoveries /\ links' = links
  <1>1. DbIs(journal, pending, rows, recoveries, links, index)
    BY ReadyIs, Transactions
  <1>2. /\ journal' = journal /\ pending' = pending /\ rows' = rows /\ recoveries' = recoveries /\ links' = links
    BY <1>1 DEF DbIs
  <1>3. OwnersKept /\ CapturedKept
    BY <1>2, RowsOfPaths, RowsOfRecoveries
  <1>4. Resting' /\ State' = State
    BY <1>2, RestingKept
  <1> QED BY <1>2, <1>3, <1>4, SameJournal, SameState

(***************************************************************************)
(* Steps that write nothing.                                               *)
(***************************************************************************)
LEMMA Halting ==
    ASSUME Ready, db' = db, run' = NoRun
    PROVE  CInv'
  BY SameDatabase, CourseEnds DEF CInv
LEMMA Failing1 ==
    ASSUME Ready, Fail
    PROVE  CInv'
  BY Halting DEF Fail
LEMMA Calling1 ==
    ASSUME Ready, db' = db, run'.cmd = run.cmd, run'.stage = run.stage, run'.at = run.at
    PROVE  CInv'
  BY SameDatabase, CourseStays DEF CInv
LEMMA Entering1 ==
    ASSUME Ready, NEW stage, NEW at \in Nat, Enter(stage, at),
           run.cmd = "bind" => State \in {"pending", "rolling_back"},
           stage \in {"cleanup", "hidden"} =>
               at = 1 \/ (run.stage = stage /\ at = run.at + 1 /\ (run.at <= Len(Tops) => Tops[run.at].path \notin DOMAIN recoveries)),
           stage \in {"root", "clear"} => DOMAIN recoveries = {}
    PROVE  CInv'
  <1>1. db' = db /\ Goto(stage, at)
    BY DEF Enter
  <1>2. /\ Chains' /\ Owners' /\ Resting' /\ State' = State /\ recoveries' = recoveries
    BY <1>1, SameDatabase
  <1>3. Course'
    BY <1>1, <1>2, CourseGoes
  <1> QED BY <1>2, <1>3 DEF CInv

(***************************************************************************)
(* Steps that write paths or what was captured.                            *)
(***************************************************************************)
LEMMA PathsWritten ==
    ASSUME Ready, NEW r, db' = [db EXCEPT !.rows = r], \A q \in DOMAIN rows : q \in DOMAIN r /\ r[q].create = rows[q].create
    PROVE  Chains' /\ Owners' /\ Resting' /\ State' = State /\ recoveries' = recoveries
  <1>1. DbIs(journal, pending, r, recoveries, links, index)
    BY ReadyIs, Transactions
  <1>2. /\ journal' = journal /\ pending' = pending /\ rows' = r /\ recoveries' = recoveries /\ links' = links
    BY <1>1 DEF DbIs
  <1>3. OwnersKept
    BY <1>2, RowsOfPaths
  <1>4. CapturedKept
    BY <1>2, RowsOfRecoveries
  <1>5. Resting' /\ State' = State
    BY <1>2, RestingKept
  <1> QED BY <1>2, <1>3, <1>4, <1>5, SameJournal, SameState

LEMMA PathWritten ==
    ASSUME Ready, NEW p \in DOMAIN rows, NEW row, db' = SetRow(p, row), row.create = rows[p].create
    PROVE  Chains' /\ Owners' /\ Resting' /\ State' = State /\ recoveries' = recoveries
  <1> DEFINE r == [rows EXCEPT ![p] = row]
  <1>1. db' = [db EXCEPT !.rows = r]
    BY ReadyIs DEF SetRow, rows, Types
  <1>2. \A q \in DOMAIN rows : q \in DOMAIN r /\ r[q].create = rows[q].create
    OBVIOUS
  <1> HIDE DEF r
  <1> QED BY <1>1, <1>2, PathsWritten

LEMMA CapturedWritten ==
    ASSUME Ready, NEW c, db' = [db EXCEPT !.recoveries = c], DOMAIN c = DOMAIN recoveries,
           \A p \in DOMAIN c : recoveries[p].completed => c[p].completed
    PROVE  Chains' /\ Owners' /\ Resting' /\ State' = State /\ DOMAIN recoveries' = DOMAIN recoveries
  <1>1. DbIs(journal, pending, rows, c, links, index)
    BY ReadyIs, Transactions
  <1>2. /\ journal' = journal /\ pending' = pending /\ rows' = rows /\ recoveries' = c /\ links' = links
    BY <1>1 DEF DbIs
  <1>3. OwnersKept
    BY <1>2, RowsOfPaths
  <1>4. CapturedKept
    BY <1>2, RowsOfRecoveries
  <1>5. Resting' /\ State' = State
    BY <1>2, RestingKept
  <1> QED BY <1>2, <1>3, <1>4, <1>5, SameJournal, SameState

(* A row or a captured path is written, the process stays or goes on.      *)
LEMMA Staying ==
    ASSUME Ready, Chains', Owners', Resting', State' = State, DOMAIN recoveries' \subseteq DOMAIN recoveries, run' = run
    PROVE  CInv'
  BY CourseStays DEF CInv
LEMMA GoingOn ==
    ASSUME Ready, Chains', Owners', Resting', State' = State, NEW stage, NEW at \in Nat, Goto(stage, at),
           run.cmd = "bind" => State \in {"pending", "rolling_back"},
           stage \notin {"cleanup", "hidden", "root", "clear"}
    PROVE  CInv'
  BY CourseGoes DEF CInv

(***************************************************************************)
(* Intents that begin no chain and own nothing.                            *)
(***************************************************************************)
LEMMA RowsAdded ==
    ASSUME Ready, NEW N, \A n \in N : Bystander(n), journal' = journal \cup N, rows' = rows, recoveries' = recoveries,
           links' = links, State' = State
    PROVE  Chains' /\ Owners'
  <1>1. JournalTypes /\ JournalTypes' /\ Chains /\ Owners
    BY ReadyIs
  <1>2. Matched
    BY Itself DEF Matched
  <1>3. OwnersKept /\ CapturedKept /\ StateKept
    BY RowsOfPaths, RowsOfRecoveries, SameState
  <1> QED BY <1>1, <1>2, <1>3, Unaltered

LEMMA Intending1 ==
    ASSUME Ready, NEW n, Bystander(n), Intend(n)
    PROVE  CInv'
  <1>1. db' = [db EXCEPT !.journal = journal \cup {n}] /\ run' = run
    BY DEF Intend, Tx, Put
  <1>2. DbIs(journal \cup {n}, pending, rows, recoveries, links, index)
    BY <1>1, ReadyIs, Transactions
  <1>3. /\ journal' = journal \cup {n} /\ pending' = pending /\ rows' = rows /\ recoveries' = recoveries /\ links' = links
    BY <1>2 DEF DbIs
  <1>4. Resting' /\ State' = State
    BY <1>3, RestingKept
  <1>5. PICK N : N = {n}
    OBVIOUS
  <1>6. Chains' /\ Owners'
    <2>1. \A x \in N : Bystander(x)
      BY <1>5
    <2>2. journal' = journal \cup N
      BY <1>3, <1>5
    <2> QED BY <1>3, <1>4, <2>1, <2>2, RowsAdded
  <1> QED BY <1>1, <1>3, <1>4, <1>6, Staying

LEMMA Renaming1 ==
    ASSUME Ready, NEW phase, NEW p, NEW q, NEW id, JournalRename(phase, p, q, id)
    PROVE  CInv'
  <1> DEFINE n == RenameRow(phase, p, q, id)
  <1>1. Intend(n)
    BY DEF JournalRename, RenameRow
  <1>2. RowIsOf(n, "rename", phase, p, q, tree[p].kind, id, NoShape, NoStamp, None, 0, "")
    BY RowsAre
  <1> HIDE DEF n
  <1>3. Bystander(n)
    BY <1>2 DEF RowIsOf, Bystander, IsPromotion
  <1> QED BY <1>1, <1>3, Intending1
LEMMA Stamping1 ==
    ASSUME Ready, NEW phase, NEW p, NEW id, NEW stamp, JournalMtime(phase, p, id, stamp)
    PROVE  CInv'
  <1> DEFINE n == MtimeRow(phase, p, id, stamp)
  <1>1. Intend(n)
    BY DEF JournalMtime, MtimeRow
  <1>2. RowIsOf(n, "mtime", phase, p, <<>>, tree[p].kind, id, NoShape, stamp, None, 0, "")
    BY RowsAre
  <1> HIDE DEF n
  <1>3. Bystander(n)
    BY <1>2 DEF RowIsOf, Bystander, IsPromotion
  <1> QED BY <1>1, <1>3, Intending1
LEMMA Removing1 ==
    ASSUME Ready, NEW phase, NEW p, NEW id, JournalRemove(phase, p, id)
    PROVE  CInv'
  <1> DEFINE n == Removal(phase, p, id)
  <1>1. Intend(n)
    BY DEF JournalRemove
  <1>2. RowIsOf(n, "remove", phase, p, <<>>, tree[p].kind, id,
                     IF tree[p].kind = "File" THEN Shape(tree, p) ELSE NoShape, NoStamp, None, 0, "")
    BY RowsAre
  <1> HIDE DEF n
  <1>3. Bystander(n)
    BY <1>2 DEF RowIsOf, Bystander, IsPromotion
  <1> QED BY <1>1, <1>3, Intending1

(***************************************************************************)
(* Stages that have nothing to do with what was captured.                  *)
(***************************************************************************)
Ordinary(stage) == stage \notin {"recover", "cleanup", "hidden", "root", "clear"}
LEMMA Bound ==
    ASSUME Ready, run.stage # "recover"
    PROVE  run.cmd = "bind" => State \in {"pending", "rolling_back"}
  BY ReadyIs DEF Course, Binding
LEMMA EnteringAccepted ==
    ASSUME Ready, NEW stage, NEW at \in Nat, Enter(stage, at), run.stage # "recover", Ordinary(stage)
    PROVE  CInv'
  BY Bound, Entering1 DEF Ordinary
LEMMA NextAccepted ==
    ASSUME Ready, Next1, Ordinary(run.stage)
    PROVE  CInv'
  <1>1. run.at + 1 \in Nat
    BY ReadyIs DEF RunTypes
  <1> QED BY <1>1, EnteringAccepted DEF Next1, Ordinary
LEMMA RowAccepted ==
    ASSUME Ready, NEW p \in DOMAIN rows, NEW row, db' = SetRow(p, row), row.create = rows[p].create, Ordinary(run.stage),
           run' = run \/ \E at \in Nat : Goto(run.stage, at)
    PROVE  CInv'
  <1>1. Chains' /\ Owners' /\ Resting' /\ State' = State /\ recoveries' = recoveries
    BY PathWritten
  <1>2. CASE run' = run
    BY <1>1, <1>2, Staying
  <1>3. CASE \E at \in Nat : Goto(run.stage, at)
    BY <1>1, <1>3, Bound, GoingOn DEF Ordinary
  <1> QED BY <1>2, <1>3
LEMMA RecoveriesAccepted ==
    ASSUME Ready, NEW c, db' = [db EXCEPT !.recoveries = c], DOMAIN c = DOMAIN recoveries,
           \A p \in DOMAIN c : recoveries[p].completed => c[p].completed,
           run' = run \/ (run.stage # "recover" /\ \E stage, at : at \in Nat /\ Ordinary(stage) /\ Goto(stage, at))
    PROVE  CInv'
  <1>1. Chains' /\ Owners' /\ Resting' /\ State' = State /\ DOMAIN recoveries' = DOMAIN recoveries
    BY CapturedWritten
  <1>2. CASE run' = run
    BY <1>1, <1>2, Staying
  <1>3. CASE run.stage # "recover" /\ \E stage, at : at \in Nat /\ Ordinary(stage) /\ Goto(stage, at)
    BY <1>1, <1>3, Bound, GoingOn DEF Ordinary
  <1> QED BY <1>2, <1>3

(***************************************************************************)
(* Nothing captured is left.                                               *)
(***************************************************************************)
LEMMA AllConsumed ==
    ASSUME Ready, run.stage \in {"cleanup", "hidden"}, run.at > Len(Tops)
    PROVE  DOMAIN recoveries = {}
  <1>1. Consumed1 /\ DOMAIN recoveries \subseteq TopPaths /\ run.at \in Nat /\ scenario \in Scenarios
    BY ReadyIs DEF Course, Types, RecoveriesTypes, RunTypes
  <1>2. Len(Tops) \in Nat /\ \A p \in TopPaths : \E i \in 1 .. Len(Tops) : Tops[i].path = p
    BY <1>1, TopsAre
  <1>3. \A i \in 1 .. Len(Tops) : Tops[i].path \notin DOMAIN recoveries
    <2> SUFFICES ASSUME NEW i \in 1 .. Len(Tops)
                 PROVE  Tops[i].path \notin DOMAIN recoveries
      OBVIOUS
    <2>1. i \in 1 .. run.at - 1 /\ i <= Len(Tops)
      BY <1>1, <1>2
    <2> QED BY <1>1, <2>1 DEF Consumed1
  <1> QED BY <1>1, <1>2, <1>3
LEMMA Unlinked ==
    ASSUME Ready, DOMAIN recoveries = {}
    PROVE  DOMAIN links = {}
  BY ReadyIs DEF Owners, Owned, Captured1

(***************************************************************************)
(* Stages that only hand on to the next one.                               *)
(***************************************************************************)
LEMMA QuietAccepted ==
    ASSUME Ready, \/ Prepared \/ DirectoriesInstalled \/ FilesInstalled \/ Materialized \/ BindScan \/ ScanTarget \/ Recheck
                  \/ Reconciled \/ Uninstalled
    PROVE  CInv'
  <1>1. /\ \A kind : NextItem(kind, 1) \in Nat
        /\ \A kind : LastItem(kind, Len(Entries)) \in Nat
    BY ReadyIs, NextItemIs, LastItemIs, EntriesAre
  <1>2. CASE Prepared
    BY <1>1, <1>2, EnteringAccepted DEF Prepared, At, Ordinary
  <1>3. CASE DirectoriesInstalled
    BY <1>1, <1>3, EnteringAccepted DEF DirectoriesInstalled, At, Ordinary
  <1>4. CASE FilesInstalled
    BY <1>1, <1>4, EnteringAccepted DEF FilesInstalled, At, Ordinary
  <1>5. CASE Materialized
    BY <1>5, EnteringAccepted DEF Materialized, At, Ordinary
  <1>6. CASE BindScan
    BY <1>6, EnteringAccepted, Failing1 DEF BindScan, At, Ordinary, Require
  <1>7. CASE ScanTarget
    BY <1>7, EnteringAccepted, Failing1 DEF ScanTarget, At, Ordinary, Require
  <1>8. CASE Recheck
    BY <1>8, EnteringAccepted, Failing1 DEF Recheck, At, Ordinary, Require
  <1>9. CASE Reconciled
    <2>1. run.stage \in {"late1", "late2", "late3", "late4"}
      BY <1>9 DEF Reconciled, AfterLate
    <2>2. Fail \/ Enter("files", NextItem("File", 1)) \/ Enter("verify", 1) \/ Enter("recheck", 1)
      BY <1>9, <2>1 DEF Reconciled, AfterLate
    <2> QED BY <1>1, <2>1, <2>2, EnteringAccepted, Failing1 DEF Ordinary
  <1>10. CASE Uninstalled
    <2>1. Enter("hidden", 1) /\ run.stage = "uninstall"
      BY <1>10 DEF Uninstalled, At
    <2> QED BY <2>1, Bound, Entering1
  <1> QED BY <1>2, <1>3, <1>4, <1>5, <1>6, <1>7, <1>8, <1>9, <1>10
LEMMA RestoredAccepted ==
    ASSUME Ready, Restored
    PROVE  CInv'
  <1>1. run.stage = "hidden" /\ run.at > Len(Tops) /\ Enter("root", 0)
    BY DEF Restored, At
  <1>2. DOMAIN recoveries = {}
    BY <1>1, AllConsumed
  <1> QED BY <1>1, <1>2, Bound, Entering1
LEMMA RestoreRootMtimeAccepted ==
    ASSUME Ready, RestoreRootMtime
    PROVE  CInv'
  <1>1. run.stage = "root"
    BY DEF RestoreRootMtime, At
  <1>2. DOMAIN recoveries = {}
    BY <1>1, ReadyIs DEF Course, ConsumedAll
  <1>3. Enter("clear", 1) \/ Fail \/ JournalMtime("rollback", <<>>, tree[<<>>].id, pending.stamp)
    BY DEF RestoreRootMtime, Require
  <1>4. CASE Enter("clear", 1)
    BY <1>1, <1>2, <1>4, Bound, Entering1
  <1> QED BY <1>3, <1>4, Failing1, Stamping1
LEMMA StartAccepted ==
    ASSUME Ready, Start
    PROVE  CInv'
  <1>1. db' = db /\ run'.stage = "recover"
    BY DEF Start, NoRun
  <1>2. Course'
    BY <1>1, SameDatabase DEF Course, Binding, Consumed1, ConsumedAll
  <1> QED BY <1>1, <1>2, SameDatabase DEF CInv

(***************************************************************************)
(* The checkout ends.                                                      *)
(***************************************************************************)
LEMMA Emptying ==
    ASSUME Ready, journal' = {}, DOMAIN links' = {}, Course'
    PROVE  CInv'
  BY NothingLeft DEF CInv
LEMMA ClearRollbackAccepted ==
    ASSUME Ready, ClearRollback
    PROVE  CInv'
  <1>1. run.stage = "clear" /\ Types /\ Places
    BY ReadyIs DEF ClearRollback, At
  <1>2. DOMAIN recoveries = {}
    BY <1>1, ReadyIs DEF Course, ConsumedAll
  <1>3. DOMAIN links = {}
    BY <1>2, Unlinked
  <1>4. run.at = 1 \/ (run.at = 2 /\ journal = {})
    BY <1>1 DEF Places
  <1>5. CASE run.at = 1
    <2>1. db' = [db EXCEPT !.journal = {}] /\ Goto("clear", 2)
      BY <1>5 DEF ClearRollback, Commit
    <2>2. DbIs({}, pending, rows, recoveries, links, index)
      BY <1>1, <2>1, Transactions
    <2>3. journal' = {} /\ pending' = pending /\ recoveries' = recoveries /\ links' = links
      BY <2>2 DEF DbIs
    <2>4. Resting' /\ State' = State
      BY <2>3, RestingKept
    <2>5. Course'
      BY <1>1, <1>2, <2>1, <2>3, <2>4, Bound, CourseGoes
    <2> QED BY <1>3, <2>3, <2>5, Emptying
  <1>6. CASE run.at = 2
    <2>1. \/ Enter("unbind", 0)
          \/ db' = Cleared /\ Goto("plan", 0) /\ run.cmd = "sync"
          \/ db' = Cleared /\ run' = NoRun
      BY <1>6 DEF ClearRollback, Commit
    <2>2. CASE Enter("unbind", 0)
      BY <1>1, <2>2, EnteringAccepted DEF Ordinary
    <2>3. ASSUME db' = Cleared
          PROVE  journal' = {} /\ DOMAIN links' = {} /\ Resting'
      <3>1. DbIs(journal, NoPending, <<>>, <<>>, <<>>, index)
        BY <1>1, <2>3, ClearedIs
      <3> QED BY <1>4, <1>6, <3>1 DEF DbIs, Resting
    <2>4. CASE db' = Cleared /\ Goto("plan", 0) /\ run.cmd = "sync"
      BY <2>3, <2>4, CourseGoes, Emptying
    <2>5. CASE db' = Cleared /\ run' = NoRun
      BY <2>3, <2>5, CourseEnds, Emptying
    <2> QED BY <2>1, <2>2, <2>4, <2>5
  <1> QED BY <1>4, <1>5, <1>6
LEMMA EndsAccepted ==
    ASSUME Ready, FinalizeCheckout \/ FinishSyncCleanup \/ RunLibraryUnbind
    PROVE  CInv'
  <1>0. Types /\ DOMAIN db = DbFields /\ IInv
    BY ReadyIs DEF Types, DbFields
  <1>1. CASE FinalizeCheckout
    <2>1. Fail \/ (/\ pending.state = "pending" /\ run' = NoRun
                   /\ db' = [db EXCEPT !.index = "target", !.rows = <<>>, !.pending = NoPending, !.journal = {}])
      BY <1>1 DEF FinalizeCheckout
    <2>2. CASE /\ pending.state = "pending" /\ run' = NoRun
               /\ db' = [db EXCEPT !.index = "target", !.rows = <<>>, !.pending = NoPending, !.journal = {}]
      <3>1. DbIs({}, NoPending, <<>>, recoveries, links, "target")
        BY <1>0, <2>2 DEF DbIs, DbFields, journal, pending, rows, recoveries, links, index
      <3>2. DOMAIN links = {}
        BY <2>2, ReadyIs DEF Tables, Indexed, Types, PendingTypes, State, Base
      <3>3. journal' = {} /\ DOMAIN links' = {} /\ Resting'
        BY <3>1, <3>2 DEF DbIs, Resting
      <3> QED BY <2>2, <3>3, CourseEnds, Emptying
    <2> QED BY <2>1, <2>2, Failing1
  <1>2. CASE FinishSyncCleanup
    <2>1. run.stage = "cleanup" /\ run.at > Len(Tops) /\ Intents = {}
      BY <1>2 DEF FinishSyncCleanup, At
    <2>2. DOMAIN links = {}
      BY <2>1, AllConsumed, Unlinked
    <2>3. \/ Enter("unbind", 0)
          \/ db' = [db EXCEPT !.rows = <<>>, !.pending = NoPending, !.journal = Intents] /\ run' = NoRun
      BY <1>2 DEF FinishSyncCleanup
    <2>4. CASE Enter("unbind", 0)
      BY <2>1, <2>4, EnteringAccepted DEF Ordinary
    <2>5. CASE db' = [db EXCEPT !.rows = <<>>, !.pending = NoPending, !.journal = Intents] /\ run' = NoRun
      <3>1. DbIs({}, NoPending, <<>>, recoveries, links, index)
        BY <1>0, <2>1, <2>5 DEF DbIs, DbFields, journal, pending, rows, recoveries, links, index
      <3>2. journal' = {} /\ DOMAIN links' = {} /\ Resting'
        BY <2>2, <3>1 DEF DbIs, Resting
      <3> QED BY <2>5, <3>2, CourseEnds, Emptying
    <2> QED BY <2>3, <2>4, <2>5
  <1>3. CASE RunLibraryUnbind
    <2>1. db' = [Cleared EXCEPT !.journal = {}, !.index = "gone"] /\ run' = NoRun
      BY <1>3 DEF RunLibraryUnbind
    <2>2. DOMAIN Cleared = DbFields /\ DOMAIN db' = DbFields
      BY <1>0, <2>1 DEF DbFields, Cleared
    <2>3. DbIs({}, NoPending, <<>>, <<>>, <<>>, "gone")
      BY <2>1, <2>2 DEF DbIs, DbFields, Cleared, journal, pending, rows, recoveries, links, index
    <2>4. journal' = {} /\ DOMAIN links' = {} /\ Resting'
      BY <2>3 DEF DbIs, Resting
    <2> QED BY <2>1, <2>4, CourseEnds, Emptying
  <1> QED BY <1>1, <1>2, <1>3

(***************************************************************************)
(* What is pending is written.                                             *)
(***************************************************************************)
LEMMA PendingWritten ==
    ASSUME Ready, Intents = {}, NEW p, NEW x, DbIs(journal, p, rows, recoveries, links, x),
           p.state # "none", State # "rolling_back" \/ p.state = "rolling_back"
    PROVE  Chains' /\ Owners' /\ Resting' /\ State' = p.state /\ recoveries' = recoveries
  <1>1. journal' = journal /\ pending' = p /\ rows' = rows /\ recoveries' = recoveries /\ links' = links
    BY DEF DbIs
  <1>2. OwnersKept /\ CapturedKept
    BY <1>1, RowsOfPaths, RowsOfRecoveries
  <1>3. State' = p.state /\ Resting'
    BY <1>1 DEF State, Resting
  <1>4. StateKept
    BY <1>1, <1>3 DEF StateKept, Intents
  <1> QED BY <1>1, <1>2, <1>3, <1>4, SameJournal
LEMMA PlannedAccepted ==
    ASSUME Ready, Intents = {}, State = "none", Planned
    PROVE  CInv'
  <1> DEFINE p == [NoPending EXCEPT !.state = "pending"]
  <1>1. db' = [db EXCEPT !.pending = p] /\ Goto("rows", 0)
    BY DEF Planned, Commit
  <1>2. p.state = "pending"
    BY DEF NoPending
  <1> HIDE DEF p
  <1>3. DbIs(journal, p, rows, recoveries, links, index)
    BY <1>1, ReadyIs, Transactions
  <1>4. Chains' /\ Owners' /\ Resting' /\ State' = "pending"
    BY <1>2, <1>3, PendingWritten
  <1>5. Course'
    BY <1>1, <1>4, CourseGoes
  <1> QED BY <1>4, <1>5 DEF CInv
LEMMA PlanAccepted ==
    ASSUME Ready, Intents = {}, State = "none", Plan
    PROVE  CInv'
  <1>1. Fail \/ Planned
    BY DEF Plan, Require, Planned
  <1> QED BY <1>1, PlannedAccepted, Failing1
LEMMA DispatchAccepted ==
    ASSUME Ready, PlanSync \/ Dispatch
    PROVE  CInv'
  <1>0. IInv /\ Stages /\ Resting /\ Indexed /\ State \in {"none", "pending", "applying", "rolling_back", "finalized"}
    BY ReadyIs DEF Course, Tables, Types, PendingTypes
  <1>1. CASE PlanSync
    <2>1. Intents = {} /\ State = "none" /\ Plan
      BY <1>0, <1>1, AtIs DEF PlanSync, Stages
    <2> QED BY <2>1, PlanAccepted
  <1>2. CASE Dispatch
    <2>1. Intents = {}
      BY <1>0, <1>2, AtIs DEF Dispatch
    <2>2. CASE run.cmd = "bind"
      <3>1. (pending # NoPending /\ Enter("rows", 0)) \/ (pending = NoPending /\ (Fail \/ Planned))
        BY <1>2, <2>2 DEF Dispatch, Require, Planned
      <3>2. CASE pending = NoPending /\ Planned
        <4>1. State = "none"
          BY <3>2 DEF State, NoPending
        <4> QED BY <2>1, <3>2, <4>1, PlannedAccepted
      <3>3. CASE pending # NoPending /\ Enter("rows", 0)
        <4>1. State \in {"pending", "rolling_back"}
          BY <1>0, <2>2, <3>3 DEF Resting, Stages, Indexed, Base
        <4> QED BY <3>3, <4>1, Entering1
      <3> QED BY <3>1, <3>2, <3>3, Failing1
    <2>3. CASE run.cmd = "unbind"
      <3>1. Enter("temps", 0)
        BY <1>2, <2>3 DEF Dispatch
      <3> QED BY <2>3, <3>1, Entering1
    <2>4. CASE run.cmd \notin {"bind", "unbind"}
      <3>1. (State = "none" /\ Plan) \/ Enter("cleanup", 1) \/ Enter("restore", 1) \/ Enter("rows", 0)
        BY <1>2, <2>4 DEF Dispatch, State
      <3> QED BY <2>1, <2>4, <3>1, PlanAccepted, Entering1
    <2> QED BY <2>2, <2>3, <2>4
  <1> QED BY <1>1, <1>2
LEMMA VerifyAccepted ==
    ASSUME Ready, VerifyCaptured
    PROVE  CInv'
  <1>0. IInv /\ Types /\ run.stage = "verify" /\ Intents = {}
    BY ReadyIs DEF VerifyCaptured, At
  <1>1. \/ Enter("scan", 0)
        \/ db' = BeginRollback /\ run' = [run EXCEPT !.cmd = "abort", !.stage = "restore", !.at = 1, !.step = "start"]
    BY DEF VerifyCaptured
  <1>2. CASE db' = BeginRollback /\ run' = [run EXCEPT !.cmd = "abort", !.stage = "restore", !.at = 1, !.step = "start"]
    <2> DEFINE p == [pending EXCEPT !.state = "rolling_back"]
    <2>1. db' = [db EXCEPT !.pending = p]
      BY <1>0, <1>2 DEF BeginRollback, pending, Types
    <2>2. p.state = "rolling_back"
      BY <1>0 DEF Types, PendingTypes
    <2> HIDE DEF p
    <2>3. DbIs(journal, p, rows, recoveries, links, index)
      BY <1>0, <2>1, Transactions
    <2>4. Chains' /\ Owners' /\ Resting'
      BY <1>0, <2>2, <2>3, PendingWritten
    <2>5. run'.cmd = "abort" /\ run'.stage = "restore"
      BY <1>2, ReadyIs DEF RunTypes
    <2>6. Course'
      BY <2>4, <2>5 DEF Course, Binding, Consumed1, ConsumedAll
    <2> QED BY <2>4, <2>6 DEF CInv
  <1> QED BY <1>0, <1>1, <1>2, EnteringAccepted DEF Ordinary
LEMMA FinalizeAccepted ==
    ASSUME Ready, FinalizeSyncApply
    PROVE  CInv'
  <1>0. IInv /\ Types /\ Stages /\ run.stage = "finalize" /\ Intents = {}
    BY ReadyIs DEF FinalizeSyncApply, At
  <1>1. run.cmd # "bind" /\ State # "rolling_back"
    BY <1>0 DEF Stages, BindStages, Applying, ApplyStages, Turned
  <1>2. Enter("late4", 1) \/ (db' = [db EXCEPT !.index = "target", !.pending.state = "finalized"] /\ Goto("cleanup", 1))
    BY DEF FinalizeSyncApply, Commit
  <1>3. CASE db' = [db EXCEPT !.index = "target", !.pending.state = "finalized"] /\ Goto("cleanup", 1)
    <2>1. DOMAIN db = DbFields /\ DOMAIN db' = DbFields
      BY <1>0, <1>3 DEF Types, DbFields
    <2>2. DbIs(journal, Final, rows, recoveries, links, "target")
      BY <1>3, <2>1 DEF DbIs, DbFields, Final, journal, pending, rows, recoveries, links, index
    <2>3. Final.state = "finalized"
      BY <1>0 DEF Final, Types, PendingTypes
    <2>4. Chains' /\ Owners' /\ Resting' /\ State' = "finalized"
      BY <1>0, <1>1, <2>2, <2>3, PendingWritten
    <2>5. Course'
      BY <1>1, <1>3, <2>4, CourseGoes
    <2> QED BY <2>4, <2>5 DEF CInv
  <1> QED BY <1>0, <1>2, <1>3, EnteringAccepted DEF Ordinary
LEMMA CleanupTempsAccepted ==
    ASSUME Ready, CleanupTemps
    PROVE  CInv'
  <1>0. IInv /\ Types /\ run.stage = "temps" /\ Intents = {}
    BY ReadyIs DEF CleanupTemps, At
  <1>1. \/ Fail \/ Enter("uninstall", 1) \/ Enter("unbind", 0) \/ Enter("cleanup", 1) \/ Enter("restore", 1)
        \/ \E t, id : JournalRemove("rollback", t, id)
        \/ pending.state \notin {"none", "finalized", "pending"} /\ Commit(BeginRollback, "restore", 1)
    BY DEF CleanupTemps, Require
  <1>2. CASE Enter("cleanup", 1)
    BY <1>0, <1>2, Bound, Entering1
  <1>3. CASE Commit(BeginRollback, "restore", 1)
    <2> DEFINE p == [pending EXCEPT !.state = "rolling_back"]
    <2>1. db' = [db EXCEPT !.pending = p] /\ Goto("restore", 1)
      BY <1>0, <1>3 DEF BeginRollback, pending, Types, Commit
    <2>2. p.state = "rolling_back"
      BY <1>0 DEF Types, PendingTypes
    <2> HIDE DEF p
    <2>3. DbIs(journal, p, rows, recoveries, links, index)
      BY <1>0, <2>1, Transactions
    <2>4. Chains' /\ Owners' /\ Resting' /\ State' = "rolling_back"
      BY <1>0, <2>2, <2>3, PendingWritten
    <2>5. Course'
      BY <2>1, <2>4, CourseGoes
    <2> QED BY <2>4, <2>5 DEF CInv
  <1>4. CASE Enter("uninstall", 1) \/ Enter("unbind", 0) \/ Enter("restore", 1)
    BY <1>0, <1>4, EnteringAccepted DEF Ordinary
  <1> QED BY <1>1, <1>2, <1>3, <1>4, Failing1, Removing1

(***************************************************************************)
(* The target's paths, and the plan of a synchronisation.                  *)
(***************************************************************************)
LEMMA SaveAccepted ==
    ASSUME Ready, SaveCheckoutPaths
    PROVE  CInv'
  <1> DEFINE r == [p \in DOMAIN TargetShape |-> IF p \in DOMAIN rows THEN rows[p] ELSE NewPath]
  <1>0. Types /\ run.stage = "rows" /\ scenario \in Scenarios
    BY ReadyIs DEF SaveCheckoutPaths, At
  <1>1. /\ db' = [db EXCEPT !.rows = r]
        /\ \/ Goto("directories", NextItem("Directory", 1)) \/ Goto("register", 1) \/ Goto("prepare", 1)
           \/ Goto("directories", 1)
    BY DEF SaveCheckoutPaths, Commit, rows
  <1>2. \A q \in DOMAIN rows : q \in DOMAIN r /\ r[q].create = rows[q].create
    BY <1>0 DEF Types, RowsTypes
  <1> HIDE DEF r
  <1>3. Chains' /\ Owners' /\ Resting' /\ State' = State
    BY <1>1, <1>2, PathsWritten
  <1>4. NextItem("Directory", 1) \in Nat
    BY <1>0, NextItemIs
  <1> QED BY <1>0, <1>1, <1>3, <1>4, Bound, GoingOn
LEMMA RegisterAccepted ==
    ASSUME Ready, RegisterRecoveryPlan
    PROVE  CInv'
  <1>0. IInv /\ Types /\ Stages /\ Unstarted /\ Indexed /\ Chains /\ run.stage = "register" /\ Intents = {}
    BY ReadyIs DEF RegisterRecoveryPlan, At, Tables
  <1>1. Base /\ State = "pending" /\ DOMAIN links = {} /\ run.cmd # "bind"
    BY <1>0 DEF Stages, Indexed, Base
  <1>2. CASE Scan(tree, {}, {}) # BaseShape
    <2>1. db' = [db EXCEPT !.rows = <<>>, !.pending = NoPending] /\ run' = NoRun
      BY <1>2 DEF RegisterRecoveryPlan, ClearUnstartedCheckout
    <2>2. DbIs(journal, NoPending, <<>>, recoveries, links, index)
      BY <1>0, <2>1, Transactions
    <2>3. journal' = journal /\ pending' = NoPending /\ recoveries' = recoveries /\ links' = links
      BY <2>2 DEF DbIs
    <2>4. \A r \in journal : r.op = "create" => r.state # "intent" /\ r.outcome # "rolled_back"
      <3>1. \A r \in journal : r.state # "intent"
        BY <1>0 DEF Intents
      <3>2. ASSUME NEW r \in journal, r.outcome = "rolled_back"
            PROVE  FALSE
        <4>1. r.order # None /\ \A c \in journal : c.origin = None
          BY <1>0, <1>1, ReadyIs DEF JournalTypes, RowOK, None, Unstarted
        <4> QED BY <1>0, <3>2, <4>1 DEF Chains, TurnedBack
      <3> QED BY <3>1, <3>2
    <2>5. OwnersKept
      BY <2>4 DEF OwnersKept
    <2>6. CapturedKept
      BY <1>1 DEF CapturedKept
    <2>7. StateKept
      BY <1>1, <2>3, <2>4 DEF StateKept
    <2>8. Chains' /\ Owners'
      BY <2>3, <2>5, <2>6, <2>7, SameJournal
    <2>9. Resting'
      BY <2>3 DEF Resting
    <2> QED BY <2>1, <2>8, <2>9, CourseEnds DEF CInv
  <1>3. CASE Scan(tree, {}, {}) = BaseShape
    <2>1. db' = [db EXCEPT !.recoveries = Capturing, !.pending = ApplyingNow] /\ Goto("prepare", 1)
      BY <1>3 DEF RegisterRecoveryPlan, Commit, Capturing, ApplyingNow
    <2>2. DbIs(journal, ApplyingNow, rows, Capturing, links, index)
      BY <1>0, <2>1, Transactions
    <2>3. journal' = journal /\ pending' = ApplyingNow /\ rows' = rows /\ links' = links
      BY <2>2 DEF DbIs
    <2>4. OwnersKept
      BY <2>3, RowsOfPaths
    <2>5. CapturedKept
      BY <1>1 DEF CapturedKept
    <2>6. StateKept
      BY <1>0, <1>1, <2>3 DEF StateKept, Intents
    <2>7. Chains' /\ Owners'
      BY <2>3, <2>4, <2>5, <2>6, SameJournal
    <2>8. Resting'
      BY <2>3 DEF Resting, State, ApplyingNow
    <2>9. Course'
      BY <1>1, <2>1, <2>8, CourseGoes
    <2> QED BY <2>7, <2>9 DEF CInv
  <1> QED BY <1>2, <1>3

(***************************************************************************)
(* The metadata of a rollback, and the paths it removes.                   *)
(***************************************************************************)
LEMMA RestoreMetadataAccepted ==
    ASSUME Ready, RestoreMetadata
    PROVE  CInv'
  <1> DEFINE from == {Top(s) : s \in {x \in DOMAIN links : Len(x) > 1}}
             c == [p \in DOMAIN recoveries |-> IF p \in from THEN [recoveries[p] EXCEPT !.shape = BaseBelow(p)] ELSE recoveries[p]]
  <1>0. Types /\ run.stage = "restore"
    BY ReadyIs DEF RestoreMetadata, At
  <1>1. db' = [db EXCEPT !.recoveries = c] /\ Goto("temps", 1)
    BY DEF RestoreMetadata, Commit, recoveries
  <1>2. DOMAIN c = DOMAIN recoveries /\ \A p \in DOMAIN c : recoveries[p].completed => c[p].completed
    <2>1. \A p \in DOMAIN recoveries : RecoveryOK(recoveries[p])
      BY <1>0 DEF Types, RecoveriesTypes
    <2> QED BY <2>1 DEF RecoveryOK
  <1> HIDE DEF c
  <1> QED BY <1>0, <1>1, <1>2, RecoveriesAccepted DEF Ordinary
LEMMA SnapshotAccepted ==
    ASSUME Ready, SnapshotDirectories
    PROVE  CInv'
  <1> DEFINE taken == {p \in DOMAIN recoveries : recoveries[p].shape[<<>>].kind = "Directory"}
             c == [p \in DOMAIN recoveries |->
                      IF p \in taken THEN [recoveries[p] EXCEPT !.shape = Shape(tree, RecoveryName(p))] ELSE recoveries[p]]
  <1>0. Types /\ run.stage = "promote"
    BY ReadyIs DEF SnapshotDirectories, At
  <1>1. db' = [db EXCEPT !.recoveries = c] /\ Goto("late1", 1)
    BY DEF SnapshotDirectories, Commit, recoveries
  <1>2. DOMAIN c = DOMAIN recoveries /\ \A p \in DOMAIN c : recoveries[p].completed => c[p].completed
    <2>1. \A p \in DOMAIN recoveries : RecoveryOK(recoveries[p])
      BY <1>0 DEF Types, RecoveriesTypes
    <2> QED BY <2>1 DEF RecoveryOK
  <1> HIDE DEF c
  <1> QED BY <1>0, <1>1, <1>2, RecoveriesAccepted DEF Ordinary
LEMMA ForgetAccepted ==
    ASSUME Ready, At("uninstall"), NEW p \in DOMAIN rows, ForgetPath(p)
    PROVE  CInv'
  <1>0. Types /\ run.stage = "uninstall" /\ Intents = {} /\ Chains /\ run.at + 1 \in Nat
    BY ReadyIs DEF At, RunTypes
  <1>1. Next1 \/ (~ PreservedBy(p) /\ db' = [db EXCEPT !.rows = Without(rows, p)] /\ Goto("uninstall", run.at + 1))
    BY DEF ForgetPath, Commit, rows
  <1>2. CASE ~ PreservedBy(p) /\ db' = [db EXCEPT !.rows = Without(rows, p)] /\ Goto("uninstall", run.at + 1)
    <2>1. DbIs(journal, pending, Without(rows, p), recoveries, links, index)
      BY <1>0, <1>2, Transactions
    <2>2. /\ journal' = journal /\ pending' = pending /\ recoveries' = recoveries /\ links' = links
          /\ DOMAIN rows' = DOMAIN rows \ {p} /\ \A q \in DOMAIN rows' : rows'[q] = rows[q]
      BY <2>1 DEF DbIs, Without
    <2>3. OwnersKept
      <3> SUFFICES ASSUME NEW r \in journal, r.op = "create", r.state = "intent" \/ r.outcome = "rolled_back", Owner(r)
                   PROVE  Owner(r)'
        BY DEF OwnersKept
      <3>1. PICK q \in DOMAIN rows : rows[q].create = r.order /\ Parent(q) = Parent(r.path)
        BY DEF Owner
      <3>2. r.outcome = "rolled_back"
        BY <1>0 DEF Intents
      <3>3. PICK c \in journal : c.origin = r.order
        BY <1>0, <3>2 DEF Chains, TurnedBack
      <3>4. Chain(r.order) # {}
        BY <3>3 DEF Chain
      <3>5. q # p
        BY <1>2, <3>1, <3>2, <3>4 DEF PreservedBy
      <3> QED BY <2>2, <3>1, <3>5 DEF Owner
    <2>4. CapturedKept
      BY <2>2, RowsOfRecoveries
    <2>5. Resting' /\ State' = State
      BY <2>2, RestingKept
    <2>6. Chains' /\ Owners'
      BY <2>2, <2>3, <2>4, <2>5, SameJournal, SameState
    <2> QED BY <1>0, <1>2, <2>5, <2>6, Bound, GoingOn
  <1> QED BY <1>0, <1>1, <1>2, NextAccepted DEF Ordinary
LEMMA UninstallAccepted ==
    ASSUME Ready, UninstallPath
    PROVE  CInv'
  <1> DEFINE p == Uninstalls[run.at].path
             row == [rows[p] EXCEPT !.tombstone = TRUE]
  <1>0. Types /\ At("uninstall") /\ run.stage = "uninstall"
    BY ReadyIs DEF UninstallPath, At
  <1>1. \/ Next1
        \/ /\ p \in DOMAIN rows
           /\ \/ ForgetPath(p) \/ Fail \/ Tx(SetRow(p, row))
              \/ \E t, id : JournalRemove("rollback", t, id)
              \/ \E t, u, id : JournalRename("rollback", t, u, id)
    BY DEF UninstallPath, Require
  <1>2. p \in DOMAIN rows => row.create = rows[p].create
    <2>1. p \in DOMAIN rows => PathRowOK(rows[p])
      BY <1>0 DEF Types, RowsTypes
    <2> QED BY <2>1 DEF PathRowOK
  <1> HIDE DEF row, p
  <1>3. CASE p \in DOMAIN rows /\ Tx(SetRow(p, row))
    <2>1. db' = SetRow(p, row) /\ run' = run
      BY <1>3 DEF Tx
    <2> QED BY <1>0, <1>2, <1>3, <2>1, RowAccepted DEF Ordinary
  <1> QED BY <1>0, <1>1, <1>3, NextAccepted, ForgetAccepted, Failing1, Removing1, Renaming1 DEF Ordinary
LEMMA SetMtimeAccepted ==
    ASSUME Ready, SetDirectoryMtime
    PROVE  CInv'
  <1>0. run.stage = "mtimes" /\ run.at \in Nat /\ run.at > 0 /\ scenario \in Scenarios
    BY ReadyIs DEF SetDirectoryMtime, At, RunTypes
  <1>1. \/ Enter("mtimes", LastItem("Directory", run.at - 1)) \/ Fail
        \/ \E p, id, stamp : JournalMtime("pre_base", p, id, stamp)
    BY DEF SetDirectoryMtime, Require
  <1>2. LastItem("Directory", run.at - 1) \in Nat
    <2>1. run.at - 1 \in Nat
      BY <1>0
    <2> QED BY <1>0, <2>1, LastItemIs
  <1> QED BY <1>0, <1>1, <1>2, EnteringAccepted, Failing1, Stamping1 DEF Ordinary
=============================================================================
