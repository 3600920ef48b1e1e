----------------------------- MODULE MCSession -----------------------------
(* Values for module Session: two databases, an older and a newer file of  *)
(* one of them, one preference.                                            *)
EXTENDS Session, TLC

CONSTANTS d1, d2, f1, f2, p1

Palms   == {d1 :> a @@ d2 :> Whole(1) : a \in {None, Whole(1)}}
Backups == {d1 :> a @@ d2 :> Whole(2) : a \in {None, Whole(1)}}
Attics  == {d1 :> a @@ d2 :> <<None, None>> :
                a \in {<<Whole(1), None>>, <<Whole(1), Whole(2)>>}}

(* A full attic only matters if there is something to be moved there.      *)
AnyHome == {h \in [palm : Palms, backup : Backups, attic : Attics] :
               h.backup[d1] # None \/ h.attic[d1][2] = None}

OfNamed   == f1 :> d1 @@ f2 :> d1
OfVersion == f1 :> 1 @@ f2 :> 2
OneNamed   == f1 :> d1
OneVersion == f1 :> 2
NoFlags   == {p1 :> {}}
AnyFlags  == {p1 :> {}, p1 :> {UNSAVED}}
OnUnsaved == p1 :> {UNSAVED}
=============================================================================
