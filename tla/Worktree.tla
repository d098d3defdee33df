------------------------------ MODULE Worktree ------------------------------
(***************************************************************************)
(* A worktree as the client's checkout sees it, and the system calls it    *)
(* makes there (src/cmd/filecloud/client_fs_actions.go, library_sync.go).  *)
(*                                                                         *)
(* A tree maps paths to objects.  A path is a sequence of leaves, the root *)
(* is <<>>; a leaf is <<form, name, n>>, so that the names the client      *)
(* derives from a name are values and not strings:                         *)
(*                                                                         *)
(*   user        an ordinary name; n > 0 is the n-th conflict name of it   *)
(*   recovered   "Filecloud recovered ...", visible; n is the attempt      *)
(*   temp, recovery, tombstone, rollback                                   *)
(*               the registered ".filecloud-internal-" names; name is the  *)
(*               leaf one of them stands for, so no two share it           *)
(*                                                                         *)
(* An object has an identity (device and inode), a kind, and data, a pair  *)
(* <<bytes, mtime>>.  A directory has no bytes of its own, and every       *)
(* change of its entries sets its mtime to Now.  Files have one link.      *)
(***************************************************************************)
EXTENDS Integers, FiniteSets, SequencesExt

Now   == <<"", -1>>        \* a directory whose mtime the file system wrote
Blank == <<"blank", -1>>   \* a file created and not written yet
Raw   == <<"raw", -1>>     \* a file whose bytes are written and mtime not yet set

VisibleForms  == {"user", "recovered"}
InternalForms == {"temp", "recovery", "tombstone", "rollback"}
VisibleLeaf == VisibleForms \X STRING \X Nat
Leaf == VisibleLeaf \cup ((VisibleForms \cup InternalForms) \X VisibleLeaf \X Nat)
VisiblePath(p) == p \in Seq(VisibleLeaf) /\ p # <<>>

MaxOrdinal == 9            \* of a conflict name; 9999 in the code
Hidden(p) == \E i \in DOMAIN p : p[i][1] \notin VisibleForms

Parent(p) == IF p = <<>> THEN <<>> ELSE Front(p)
Beside(p, leaf) == Append(Parent(p), leaf)
Renamed(p, form, n) == Beside(p, <<form, Last(p)[2], n>>)
Internal(p, form, n) == Beside(p, <<form, Last(p), n>>)
Under(t, p) == {q \in DOMAIN t : IsPrefix(p, q)}
Rest(p, q) == SubSeq(q, Len(p) + 1, Len(q))        \* q, seen from its ancestor p

(***************************************************************************)
(* What the scanner computes: the shape of an object is its kind and data, *)
(* for a directory together with everything below it.                      *)
(***************************************************************************)
Shape(t, p) == [s \in {Rest(p, q) : q \in Under(t, p)} |->
                   [kind |-> t[p \o s].kind, data |-> t[p \o s].data]]

IsDir(t, p)  == p \in DOMAIN t /\ t[p].kind = "Directory"
IsFile(t, p) == p \in DOMAIN t /\ t[p].kind = "File"
HasId(t, p, id) == p \in DOMAIN t /\ t[p].id = id
Holds(t, p, id, shape) == HasId(t, p, id) /\ Shape(t, p) = shape

(***************************************************************************)
(* A scan of the root without the registered internal names and without    *)
(* the paths of late conflicts.  Any other internal name makes it differ   *)
(* from every snapshot.                                                    *)
(***************************************************************************)
Scan(t, roots, late) ==
    [p \in {q \in DOMAIN t : /\ q # <<>>
                             /\ q[1] \notin roots
                             /\ \A l \in late : ~ IsPrefix(l, q)} |->
        [kind |-> t[p].kind, data |-> t[p].data]]

(***************************************************************************)
(* mkdir and open(O_CREAT|O_EXCL); rename without replacing, within a      *)
(* parent or across two; unlink and rmdir; futimes.                        *)
(***************************************************************************)
Extended(f, x, v) == [y \in DOMAIN f \cup {x} |-> IF y = x THEN v ELSE f[y]]
Touched(t, p) == [t EXCEPT ![Parent(p)].data = Now]
Made(t, p, id, kind, data) ==
    Touched(Extended(t, p, [id |-> id, kind |-> kind, data |-> data]), p)
Moved(t, p, q) ==
    LET kept == DOMAIN t \ Under(t, p)
        new  == {q \o Rest(p, r) : r \in Under(t, p)}
        here == [r \in kept \cup new |->
                    IF r \in kept THEN t[r] ELSE t[p \o Rest(q, r)]]
    IN  Touched(Touched(here, p), q)
Removed(t, p) == Touched([q \in DOMAIN t \ {p} |-> t[q]], p)
Stamped(t, p, data) == [t EXCEPT ![p].data = data]
Empty(t, p) == Under(t, p) = {p}
=============================================================================
